---- MODULE Spec2Model ----
(***************************************************************************)
(* Model of eelbrain/data/testnd/testnd.py: the cluster-permutation        *)
(* distribution accumulator (_ClusterDist) and its cluster labeling.       *)
(*                                                                         *)
(* Arrays are functions from index tuples (0-based, as in numpy) to        *)
(* integers; a boolean map is the set of its true index tuples.  Python's  *)
(* None is the empty tuple and a present scalar v is <<v>>.  A p-value is  *)
(* kept as its numerator over 2N (so 1.0 is 2N).                           *)
(***************************************************************************)
EXTENDS Integers, Sequences, FiniteSets, TLC

\* ------------------------------------------------------------ bounds
\* largest number of permutations an accumulator is constructed with
MaxN == 2
\* largest number of add_original / add_perm calls made on one accumulator
MaxCalls == 3
\* the cluster-forming threshold: t_upper = Thr, t_lower = -Thr
Thr == 1
\* largest number of points beyond a threshold in a parameter map of the
\* labeling model, and of the call-sequence model
MaxSupra == 3
SeqSupra == 1
\* time-axis length of the dependent variables of the call-sequence model
SeqTimes == 2
\* axis lengths of the dependent variables of the labeling model
LabSensors == 2
LabTimes == 2
LabFreqs == 2
\* time-axis length of the dependent variable of the run model, and the
\* largest number of points beyond a threshold in its original map
RunTimes == 3
RunSupra == 2
\* largest number of open `with caffeine:` blocks, and of __enter__ and
\* __exit__ calls, of the Caffeinator model
MaxOpen == 3
MaxLog == 6

None == <<>>
Some(v) == <<v>>
IsNone(x) == x = <<>>
Val(x) == x[1]
Abs(x) == IF x < 0 THEN -x ELSE x
SetMin(S) == CHOOSE x \in S : \A y \in S : x <= y
SetMax(S) == CHOOSE x \in S : \A y \in S : x >= y

\* ------------------------------------------------------------ numpy
\* an array held as an explicit table of its values
Array(f) == f @@ <<>>

\* a local name for a value: F applied to x
Bind(x, F(_)) == F(x)

RECURSIVE Prod(_, _)
\* product of shape[k..]
Prod(shape, k) == IF k > Len(shape) THEN 1 ELSE shape[k] * Prod(shape, k + 1)

RECURSIVE MaxLen(_, _)
MaxLen(shape, k) ==
    IF k > Len(shape) THEN 0
    ELSE LET m == MaxLen(shape, k + 1) IN IF shape[k] > m THEN shape[k] ELSE m

\* all index tuples of an array of this shape
Points(shape) ==
    {p \in [1..Len(shape) -> 0..(MaxLen(shape, 1) - 1)] :
        \A k \in 1..Len(shape) : p[k] < shape[k]}

RECURSIVE RavelFrom(_, _, _)
RavelFrom(p, shape, k) ==
    IF k > Len(shape) THEN 0
    ELSE p[k] * Prod(shape, k + 1) + RavelFrom(p, shape, k + 1)

\* C-order (row-major) linear index of p, and its inverse
Ravel(p, shape) == RavelFrom(p, shape, 1)
Unravel(j, shape) ==
    [k \in 1..Len(shape) |-> (j \div Prod(shape, k + 1)) % shape[k]]

\* a.reshape(new_shape) of an array a of shape old_shape
reshape(a, old_shape, new_shape) ==
    Array([q \in Points(new_shape) |->
              a[Unravel(Ravel(q, new_shape), old_shape)]])

\* shape and index tuple with axes ax1 and ax2 (0-based) exchanged
SwapTuple(c, ax1, ax2) ==
    [k \in 1..Len(c) |->
        IF k = ax1 + 1 THEN c[ax2 + 1]
        ELSE IF k = ax2 + 1 THEN c[ax1 + 1] ELSE c[k]]

\* a.swapaxes(ax1, ax2) of an array a of the given shape
swapaxes(a, shape, ax1, ax2) ==
    Array([c \in Points(SwapTuple(shape, ax1, ax2)) |->
              a[SwapTuple(c, ax1, ax2)]])

\* a.shape of an array a with one element or more: the number of indices
\* along each axis
ShapeOf(a) ==
    Bind(DOMAIN a, LAMBDA dom :
    Bind(CHOOSE p \in dom : TRUE, LAMBDA p0 :
        [k \in 1..Len(p0) |-> Cardinality({p[k] : p \in dom})]))

\* ------------------------------------------------------------ scipy.ndimage
\* generate_binary_structure(rank, connectivity), as the set of the offsets
\* of its true entries from the centre
generate_binary_structure(rank, connectivity) ==
    LET RECURSIVE Dist(_, _)
        Dist(o, k) == IF k > rank THEN 0 ELSE Abs(o[k]) + Dist(o, k + 1)
    IN  {o \in [1..rank -> {-1, 0, 1}] : Dist(o, 1) <= connectivity}

\* ndimage.label(bin_map, structure): the connected components of the true
\* points under the structure, numbered 1..n in raster order of their first
\* point; 0 elsewhere
ndimage_label(bin_map, shape, structure) ==
    LET size == Prod(shape, 1)
        pts == Points(shape)
        Nbrs(S) ==
            {q \in bin_map :
                \E s \in S : [k \in 1..Len(shape) |-> q[k] - s[k]] \in structure}
        RECURSIVE Grow(_)
        Grow(S) == LET S2 == S \cup Nbrs(S) IN IF S2 = S THEN S ELSE Grow(S2)
        RECURSIVE Scan(_, _, _)
        Scan(j, cmap, n) ==
            IF j = size THEN [cmap |-> cmap, n |-> n]
            ELSE LET p == Unravel(j, shape) IN
                 IF p \in bin_map /\ cmap[p] = 0
                 THEN LET comp == Grow({p}) IN
                      Scan(j + 1,
                           Array([q \in pts |->
                                     IF q \in comp THEN n + 1 ELSE cmap[q]]),
                           n + 1)
                 ELSE Scan(j + 1, cmap, n)
    IN  Scan(0, Array([q \in pts |-> 0]), 0)

\* ndimage.sum(input, labels, index) for one label
ndimage_sum(input, labels, cid) ==
    LET pts == {p \in DOMAIN labels : labels[p] = cid}
        RECURSIVE Acc(_)
        Acc(S) == IF S = {} THEN 0
                  ELSE LET p == CHOOSE x \in S : TRUE IN input[p] + Acc(S \ {p})
    IN  Acc(pts)

\* scipy.sparse.csgraph.connected_components(c_, False) on nodes 0..n-1 with
\* the given edges: the component (set of nodes) of every node
connected_components(n, edges) ==
    LET Adj(a, b) == <<a, b>> \in edges \/ <<b, a>> \in edges
        RECURSIVE Grow(_)
        Grow(S) ==
            LET S2 == S \cup {b \in 0..(n - 1) : \E a \in S : Adj(a, b)}
            IN  IF S2 = S THEN S ELSE Grow(S2)
    IN  [a \in 0..(n - 1) |-> Grow({a})]

\* ------------------------------------------------------------ data
\* The dependent variable Y, reduced to what _ClusterDist reads of it: the
\* shape of its non-case axes, each axis' "adjacent" flag, the connectivity
\* (row, col pairs) of its non-adjacent axis, and which axis is time.  Time
\* sample k of Y is at time k (tmin = 0, tstep = 1).
Layout(shape, adjacent, conn, time_ax) ==
    [shape |-> shape, adjacent |-> adjacent, conn |-> conn, time_ax |-> time_ax]

tstep == 1

\* Y.subdata(time=(tstart, tstop)): the time samples kept
subdata_times(Y, tstart, tstop) ==
    {t \in 0..(Y.shape[Y.time_ax + 1] - 1) :
        /\ IsNone(tstart) \/ t >= Val(tstart)
        /\ IsNone(tstop) \/ t < Val(tstop)}

\* Y.time.index(tstart, 'up')
time_index_up(Y, tstart) == Val(tstart)

RECURSIVE SortedSeq(_)
\* tuple(cids): the ids in ascending order
SortedSeq(S) == IF S = {} THEN <<>> ELSE <<SetMin(S)>> \o SortedSeq(S \ {SetMin(S)})

\* ------------------------------------------------------------ _ClusterDist
\* _ClusterDist.__init__ for a valid threshold pair and at most one
\* non-adjacent axis: the object after construction
ClusterDist_init(Y, N, t_upper, t_lower, tstart, tstop) ==
    LET crop == ~(IsNone(tstart) /\ IsNone(tstop))
        n_perm_t == Cardinality(subdata_times(Y, tstart, tstop))
        istart == IF IsNone(tstart) THEN 0 ELSE time_index_up(Y, tstart)
        istop == istart + n_perm_t
        t_ax == Y.time_ax
        Y_perm == IF crop
                  THEN [k \in 1..Len(Y.shape) |->
                           IF k = t_ax + 1 THEN n_perm_t ELSE Y.shape[k]]
                  ELSE Y.shape
        adjacent == Y.adjacent
        all_adjacent == \A k \in 1..Len(adjacent) : adjacent[k]
        ax == IF all_adjacent THEN 0
              ELSE SetMin({k \in 1..Len(adjacent) : ~adjacent[k]}) - 1
        struct == {o \in generate_binary_structure(2, 1) : o[1] = 0}
        shape == IF ax # 0 THEN SwapTuple(Y_perm, 0, ax) ELSE Y_perm
    IN  [Y |-> Y,
         Y_perm |-> Y_perm,
         crop |-> crop,
         _crop_idx |-> [t_ax |-> t_ax, istart |-> istart, istop |-> istop],
         _uncropped_shape |-> Y.shape,
         _all_adjacent |-> all_adjacent,
         _nad_ax |-> ax,
         _conn |-> Y.conn,
         _struct |-> struct,
         _orig_shape |-> shape,
         _flat_shape |-> <<shape[1], Prod(shape, 2)>>,
         dist |-> [k \in 1..N |-> 0],
         _i |-> N,
         t_upper |-> t_upper,
         t_lower |-> t_lower,
         tstart |-> tstart,
         tstop |-> tstop,
         attrs |-> {},
         _cluster_im |-> <<>>,
         _original_pmap |-> <<>>,
         _cids |-> {},
         n_clusters |-> 0,
         clusters |-> [none |-> TRUE, rows |-> <<>>],
         cpmap |-> <<>>,
         pmap |-> <<>>]

\* __init__ that lets t_lower = 0 pass
ClusterDist_new_lax(Y, N, t_upper, t_lower, tstart, tstop, close_time) ==
    IF ~IsNone(t_lower) /\ Val(t_lower) > 0
    THEN [self |-> None, exc |-> "ValueError"]
    ELSE IF ~IsNone(t_upper) /\ Val(t_upper) <= 0
    THEN [self |-> None, exc |-> "ValueError"]
    ELSE IF ~IsNone(t_lower) /\ ~IsNone(t_upper) /\ Val(t_lower) # -Val(t_upper)
    THEN [self |-> None, exc |-> "ValueError"]
    ELSE IF close_time # 0
    THEN [self |-> None, exc |-> "NotImplementedError"]
    ELSE IF Cardinality({k \in 1..Len(Y.adjacent) : Y.adjacent[k]})
                < Len(Y.adjacent) - 1
    THEN [self |-> None, exc |-> "NotImplementedError"]
    ELSE [self |-> ClusterDist_init(Y, N, t_upper, t_lower, tstart, tstop),
          exc |-> "none"]

\* __init__ that lets two non-adjacent axes pass
ClusterDist_new_two(Y, N, t_upper, t_lower, tstart, tstop, close_time) ==
    IF ~IsNone(t_lower) /\ Val(t_lower) >= 0
    THEN [self |-> None, exc |-> "ValueError"]
    ELSE IF ~IsNone(t_upper) /\ Val(t_upper) <= 0
    THEN [self |-> None, exc |-> "ValueError"]
    ELSE IF ~IsNone(t_lower) /\ ~IsNone(t_upper) /\ Val(t_lower) # -Val(t_upper)
    THEN [self |-> None, exc |-> "ValueError"]
    ELSE IF close_time # 0
    THEN [self |-> None, exc |-> "NotImplementedError"]
    ELSE IF Cardinality({k \in 1..Len(Y.adjacent) : Y.adjacent[k]})
                < Len(Y.adjacent) - 2
    THEN [self |-> None, exc |-> "NotImplementedError"]
    ELSE [self |-> ClusterDist_init(Y, N, t_upper, t_lower, tstart, tstop),
          exc |-> "none"]

\* _ClusterDist(...): the object (None when __init__ raises) and the exception;
\* a failing __init__ leaves the caller without object
ClusterDist_new(Y, N, t_upper, t_lower, tstart, tstop, close_time) ==
    IF ~IsNone(t_lower) /\ Val(t_lower) >= 0
    THEN [self |-> None, exc |-> "ValueError"]
    ELSE IF ~IsNone(t_upper) /\ Val(t_upper) <= 0
    THEN [self |-> None, exc |-> "ValueError"]
    ELSE IF ~IsNone(t_lower) /\ ~IsNone(t_upper) /\ Val(t_lower) # -Val(t_upper)
    THEN [self |-> None, exc |-> "ValueError"]
    ELSE IF close_time # 0
    THEN [self |-> None, exc |-> "NotImplementedError"]
    ELSE IF Cardinality({k \in 1..Len(Y.adjacent) : Y.adjacent[k]})
                < Len(Y.adjacent) - 1
    THEN [self |-> None, exc |-> "NotImplementedError"]
    ELSE [self |-> ClusterDist_init(Y, N, t_upper, t_lower, tstart, tstop),
          exc |-> "none"]

\* _ClusterDist._crop of an im of the shape of Y
crop_(self, im) ==
    IF self.crop
    THEN [p \in Points(self.Y_perm) |->
             im[[k \in 1..Len(p) |->
                    IF k = self._crop_idx.t_ax + 1
                    THEN p[k] + self._crop_idx.istart ELSE p[k]]]]
    ELSE im

\* _uncrop that always fills with 0
uncrop_zero(self, im, background) ==
    IF self.crop
    THEN [p \in Points(self._uncropped_shape) |->
             LET t == p[self._crop_idx.t_ax + 1] IN
             IF t >= self._crop_idx.istart /\ t < self._crop_idx.istop
             THEN im[[k \in 1..Len(p) |->
                         IF k = self._crop_idx.t_ax + 1
                         THEN p[k] - self._crop_idx.istart ELSE p[k]]]
             ELSE 0]
    ELSE im

\* _ClusterDist._uncrop
uncrop_(self, im, background) ==
    IF self.crop
    THEN [p \in Points(self._uncropped_shape) |->
             LET t == p[self._crop_idx.t_ax + 1] IN
             IF t >= self._crop_idx.istart /\ t < self._crop_idx.istop
             THEN im[[k \in 1..Len(p) |->
                         IF k = self._crop_idx.t_ax + 1
                         THEN p[k] - self._crop_idx.istart ELSE p[k]]]
             ELSE background]
    ELSE im

\* one pass of the column loop of _label_clusters_1tailed: the labels of
\* graph positions that are connected within column i are merged
MergeColumn(self, cmap, cids, i) ==
    LET n_chan == self._flat_shape[1]
        column == {cmap[<<g, i>>] : g \in 0..(n_chan - 1)} \ {0}
        idx == {g \in 0..(n_chan - 1) : cmap[<<g, i>>] # 0}
        c_ == {e \in self._conn : e[1] \in idx /\ e[2] \in idx}
        lbl_map == connected_components(n_chan, c_)
        comps == {lbl_map[g] : g \in 0..(n_chan - 1)}
        labels_ == {S \in comps : Cardinality(S) > 1}
        RECURSIVE Merge(_, _, _)
        Merge(cm, ci, todo) ==
            IF todo = {} THEN [cmap |-> cm, cids |-> ci, done |-> TRUE]
            ELSE LET lbl == CHOOSE S \in todo :
                                \A T \in todo : SetMin(S) <= SetMin(T)
                     merge == {cm[<<g, i>>] : g \in lbl}
                     first == SetMin(merge)
                 IN  Merge(Array([q \in DOMAIN cm |->
                                     IF cm[q] \in merge THEN first ELSE cm[q]]),
                           ci \ (merge \ {first}),
                           todo \ {lbl})
    IN  IF Cardinality(column) <= 1
        THEN [cmap |-> cmap, cids |-> cids, done |-> FALSE]
        ELSE IF Cardinality(comps) = n_chan
        THEN [cmap |-> cmap, cids |-> cids, done |-> FALSE]
        ELSE Merge(cmap, cids, labels_)

\* _label_clusters_1tailed that labels a grid with the full structuring
\* element, which also joins diagonal neighbours
label_clusters_1tailed_full(self, bin_map, shape) ==
    IF self._all_adjacent
    THEN Bind(ndimage_label(bin_map, shape,
                  generate_binary_structure(Len(shape), Len(shape))),
              LAMBDA r : [cmap |-> r.cmap, cids |-> 1..r.n])
    ELSE LET RECURSIVE Loop(_, _, _)
             Loop(cmap, cids, i) ==
                 IF i = shape[2] THEN [cmap |-> cmap, cids |-> cids]
                 ELSE Bind(MergeColumn(self, cmap, cids, i), LAMBDA m :
                      IF m.done /\ Cardinality(m.cids) = 1
                      THEN [cmap |-> m.cmap, cids |-> m.cids]
                      ELSE Loop(m.cmap, m.cids, i + 1))
         IN  Bind(ndimage_label(bin_map, shape, self._struct),
                  LAMBDA r : Loop(r.cmap, 1..r.n, 0))

\* _ClusterDist._label_clusters_1tailed for a bin_map of the given shape, as
\* the set of its true points (no gap closing: close_time raises
\* NotImplementedError in __init__)
label_clusters_1tailed(self, bin_map, shape) ==
    IF self._all_adjacent
    THEN Bind(ndimage_label(bin_map, shape,
                  generate_binary_structure(Len(shape), 1)),
              LAMBDA r : [cmap |-> r.cmap, cids |-> 1..r.n])
    ELSE LET RECURSIVE Loop(_, _, _)
             Loop(cmap, cids, i) ==
                 IF i = shape[2] THEN [cmap |-> cmap, cids |-> cids]
                 ELSE Bind(MergeColumn(self, cmap, cids, i), LAMBDA m :
                      IF m.done /\ Cardinality(m.cids) = 1
                      THEN [cmap |-> m.cmap, cids |-> m.cids]
                      ELSE Loop(m.cmap, m.cids, i + 1))
         IN  Bind(ndimage_label(bin_map, shape, self._struct),
                  LAMBDA r : Loop(r.cmap, 1..r.n, 0))

\* _ClusterDist._label_clusters for a pmap of the given shape: exc is the
\* exception raised, if any
label_clusters(self, pmap, shape) ==
    LET bin_map_above == {q \in DOMAIN pmap : pmap[q] > Val(self.t_upper)}
        bin_map_below == {q \in DOMAIN pmap : pmap[q] < Val(self.t_lower)}
        \* both thresholds: the ids below t_lower are shifted by x = cmap.max()
        Both(up, lo, x) ==
            [cmap |-> [q \in DOMAIN up.cmap |->
                          up.cmap[q] + IF q \in bin_map_below
                                       THEN lo.cmap[q] + x ELSE lo.cmap[q]],
             cids |-> up.cids \cup {c + x : c \in lo.cids},
             exc |-> "none"]
    IN  IF IsNone(self.t_upper) /\ IsNone(self.t_lower)
        THEN [cmap |-> <<>>, cids |-> {}, exc |-> "UnboundLocalError"]
        ELSE IF IsNone(self.t_lower)
        THEN label_clusters_1tailed(self, bin_map_above, shape) @@ [exc |-> "none"]
        ELSE Bind(label_clusters_1tailed(self, bin_map_below, shape), LAMBDA lo :
             IF IsNone(self.t_upper) THEN lo @@ [exc |-> "none"]
             ELSE Bind(label_clusters_1tailed(self, bin_map_above, shape), LAMBDA up :
                  Both(up, lo, SetMax({up.cmap[q] : q \in DOMAIN up.cmap}))))

\* the percentile of score in dist itself, not its complement, as a numerator
\* over 2 * Len(dist)
cluster_p_percentile(dist, score) ==
    Cardinality({k \in 1..Len(dist) : dist[k] < score})
    + Cardinality({k \in 1..Len(dist) : dist[k] <= score})

\* the p-value with percentileofscore of kind 'weak': an entry equal to the
\* score counts as below it
cluster_p_weak(dist, score) ==
    2 * (Len(dist) - Cardinality({k \in 1..Len(dist) : dist[k] <= score}))

\* 1 - percentileofscore(dist, score, 'mean') / 100, as a numerator over
\* 2 * len(dist): percentileofscore is (#{a < score} + #{a <= score}) * 50 / n
cluster_p_of(dist, score) ==
    LET n == Len(dist)
        strict == Cardinality({k \in 1..n : dist[k] < score})
        weak == Cardinality({k \in 1..n : dist[k] <= score})
    IN  2 * n - (strict + weak)

\* np.argsort(cluster_p): the positions of cluster_p in ascending order of
\* value (equal values in ascending order of position)
argsort(cluster_p) ==
    LET n == Len(cluster_p)
        Before(a, b) == cluster_p[a] < cluster_p[b]
                        \/ (cluster_p[a] = cluster_p[b] /\ a < b)
    IN  [i \in 1..n |->
            CHOOSE a \in 1..n :
                Cardinality({b \in 1..n : Before(b, a)}) = i - 1]

\* _finalize that starts the cluster-probability map from zeros
finalize_zeros(self) ==
    IF self._i < 0
    THEN [self |-> self, exc |-> "RuntimeError"]
    ELSE IF "_original_pmap" \notin self.attrs
    THEN [self |-> self, exc |-> "AttributeError"]
    ELSE IF self.n_clusters = 0
    THEN [self |-> [self EXCEPT !.clusters = [none |-> TRUE, rows |-> <<>>],
                                !.attrs = @ \cup {"clusters"}],
          exc |-> "none"]
    ELSE
    Bind(crop_(self, self._original_pmap), LAMBDA pmap_ :
    Bind(SortedSeq(self._cids), LAMBDA cids :
    Bind([k \in 1..Len(cids) |->
             ndimage_sum(pmap_, self._cluster_im, cids[k])], LAMBDA cluster_v :
    Bind([k \in 1..Len(cids) |->
             cluster_p_of(self.dist, Abs(cluster_v[k]))], LAMBDA cluster_p :
    Bind(argsort(cluster_p), LAMBDA sort_idx :
    LET cmap == self._cluster_im
        n == Len(self.dist)
        time_ax == self.Y.time_ax
        len_time == self.Y_perm[time_ax + 1]
        \* self.Y_perm.get_dim('time').times[k]
        times(k) == (self._crop_idx.istart + k) * tstep
        \* ndimage.find_objects(cmap)[cid - 1][time_ax]
        t_start(cid) ==
            SetMin({q[time_ax + 1] : q \in {r \in DOMAIN cmap : cmap[r] = cid}})
        t_stop(cid) ==
            SetMax({q[time_ax + 1] : q \in {r \in DOMAIN cmap : cmap[r] = cid}}) + 1
        row(ci) ==
            [p |-> cluster_p[ci],
             v |-> cluster_v[ci],
             cluster |-> uncrop_(self,
                            [q \in DOMAIN pmap_ |->
                                IF cmap[q] = cids[ci] THEN pmap_[q] ELSE 0], 0),
             tstart |-> times(t_start(cids[ci])),
             tstop |-> IF t_stop(cids[ci]) = len_time
                       THEN times(len_time - 1) + tstep
                       ELSE times(t_stop(cids[ci]))]
        cpmap == [q \in DOMAIN pmap_ |->
                     IF cmap[q] \in self._cids
                     THEN cluster_p[CHOOSE k \in 1..Len(cids) : cids[k] = cmap[q]]
                     ELSE 0]
    IN  [self |-> [self EXCEPT
                      !.clusters = [none |-> FALSE,
                                    rows |-> [i \in 1..Len(cids) |->
                                                 row(sort_idx[i])]],
                      !.cpmap = uncrop_(self, cpmap, 2 * n),
                      !.pmap = self._original_pmap,
                      !.attrs = @ \cup {"clusters", "cpmap", "pmap", "all"}],
         exc |-> "none"])))))

\* _finalize that fills the table in the order of the cluster ids
finalize_unsorted(self) ==
    IF self._i < 0
    THEN [self |-> self, exc |-> "RuntimeError"]
    ELSE IF "_original_pmap" \notin self.attrs
    THEN [self |-> self, exc |-> "AttributeError"]
    ELSE IF self.n_clusters = 0
    THEN [self |-> [self EXCEPT !.clusters = [none |-> TRUE, rows |-> <<>>],
                                !.attrs = @ \cup {"clusters"}],
          exc |-> "none"]
    ELSE
    Bind(crop_(self, self._original_pmap), LAMBDA pmap_ :
    Bind(SortedSeq(self._cids), LAMBDA cids :
    Bind([k \in 1..Len(cids) |->
             ndimage_sum(pmap_, self._cluster_im, cids[k])], LAMBDA cluster_v :
    Bind([k \in 1..Len(cids) |->
             cluster_p_of(self.dist, Abs(cluster_v[k]))], LAMBDA cluster_p :
    Bind(argsort(cluster_p), LAMBDA sort_idx :
    LET cmap == self._cluster_im
        n == Len(self.dist)
        time_ax == self.Y.time_ax
        len_time == self.Y_perm[time_ax + 1]
        \* self.Y_perm.get_dim('time').times[k]
        times(k) == (self._crop_idx.istart + k) * tstep
        \* ndimage.find_objects(cmap)[cid - 1][time_ax]
        t_start(cid) ==
            SetMin({q[time_ax + 1] : q \in {r \in DOMAIN cmap : cmap[r] = cid}})
        t_stop(cid) ==
            SetMax({q[time_ax + 1] : q \in {r \in DOMAIN cmap : cmap[r] = cid}}) + 1
        row(ci) ==
            [p |-> cluster_p[ci],
             v |-> cluster_v[ci],
             cluster |-> uncrop_(self,
                            [q \in DOMAIN pmap_ |->
                                IF cmap[q] = cids[ci] THEN pmap_[q] ELSE 0], 0),
             tstart |-> times(t_start(cids[ci])),
             tstop |-> IF t_stop(cids[ci]) = len_time
                       THEN times(len_time - 1) + tstep
                       ELSE times(t_stop(cids[ci]))]
        cpmap == [q \in DOMAIN pmap_ |->
                     IF cmap[q] \in self._cids
                     THEN cluster_p[CHOOSE k \in 1..Len(cids) : cids[k] = cmap[q]]
                     ELSE 2 * n]
    IN  [self |-> [self EXCEPT
                      !.clusters = [none |-> FALSE,
                                    rows |-> [i \in 1..Len(cids) |->
                                                 row(i)]],
                      !.cpmap = uncrop_(self, cpmap, 2 * n),
                      !.pmap = self._original_pmap,
                      !.attrs = @ \cup {"clusters", "cpmap", "pmap", "all"}],
         exc |-> "none"])))))

\* _finalize with the time of the last sample of a cluster as its tstop
finalize_last(self) ==
    IF self._i < 0
    THEN [self |-> self, exc |-> "RuntimeError"]
    ELSE IF "_original_pmap" \notin self.attrs
    THEN [self |-> self, exc |-> "AttributeError"]
    ELSE IF self.n_clusters = 0
    THEN [self |-> [self EXCEPT !.clusters = [none |-> TRUE, rows |-> <<>>],
                                !.attrs = @ \cup {"clusters"}],
          exc |-> "none"]
    ELSE
    Bind(crop_(self, self._original_pmap), LAMBDA pmap_ :
    Bind(SortedSeq(self._cids), LAMBDA cids :
    Bind([k \in 1..Len(cids) |->
             ndimage_sum(pmap_, self._cluster_im, cids[k])], LAMBDA cluster_v :
    Bind([k \in 1..Len(cids) |->
             cluster_p_of(self.dist, Abs(cluster_v[k]))], LAMBDA cluster_p :
    Bind(argsort(cluster_p), LAMBDA sort_idx :
    LET cmap == self._cluster_im
        n == Len(self.dist)
        time_ax == self.Y.time_ax
        len_time == self.Y_perm[time_ax + 1]
        \* self.Y_perm.get_dim('time').times[k]
        times(k) == (self._crop_idx.istart + k) * tstep
        \* ndimage.find_objects(cmap)[cid - 1][time_ax]
        t_start(cid) ==
            SetMin({q[time_ax + 1] : q \in {r \in DOMAIN cmap : cmap[r] = cid}})
        t_stop(cid) ==
            SetMax({q[time_ax + 1] : q \in {r \in DOMAIN cmap : cmap[r] = cid}}) + 1
        row(ci) ==
            [p |-> cluster_p[ci],
             v |-> cluster_v[ci],
             cluster |-> uncrop_(self,
                            [q \in DOMAIN pmap_ |->
                                IF cmap[q] = cids[ci] THEN pmap_[q] ELSE 0], 0),
             tstart |-> times(t_start(cids[ci])),
             tstop |-> IF t_stop(cids[ci]) = len_time
                       THEN times(len_time - 1) + tstep
                       ELSE times(t_stop(cids[ci]) - 1)]
        cpmap == [q \in DOMAIN pmap_ |->
                     IF cmap[q] \in self._cids
                     THEN cluster_p[CHOOSE k \in 1..Len(cids) : cids[k] = cmap[q]]
                     ELSE 2 * n]
    IN  [self |-> [self EXCEPT
                      !.clusters = [none |-> FALSE,
                                    rows |-> [i \in 1..Len(cids) |->
                                                 row(sort_idx[i])]],
                      !.cpmap = uncrop_(self, cpmap, 2 * n),
                      !.pmap = self._original_pmap,
                      !.attrs = @ \cup {"clusters", "cpmap", "pmap", "all"}],
         exc |-> "none"])))))

\* _ClusterDist._finalize: the object after the call and the exception
\* raised, if any
finalize(self) ==
    IF self._i < 0
    THEN [self |-> self, exc |-> "RuntimeError"]
    ELSE IF "_original_pmap" \notin self.attrs
    THEN [self |-> self, exc |-> "AttributeError"]
    ELSE IF self.n_clusters = 0
    THEN [self |-> [self EXCEPT !.clusters = [none |-> TRUE, rows |-> <<>>],
                                !.attrs = @ \cup {"clusters"}],
          exc |-> "none"]
    ELSE
    Bind(crop_(self, self._original_pmap), LAMBDA pmap_ :
    Bind(SortedSeq(self._cids), LAMBDA cids :
    Bind([k \in 1..Len(cids) |->
             ndimage_sum(pmap_, self._cluster_im, cids[k])], LAMBDA cluster_v :
    Bind([k \in 1..Len(cids) |->
             cluster_p_of(self.dist, Abs(cluster_v[k]))], LAMBDA cluster_p :
    Bind(argsort(cluster_p), LAMBDA sort_idx :
    LET cmap == self._cluster_im
        n == Len(self.dist)
        time_ax == self.Y.time_ax
        len_time == self.Y_perm[time_ax + 1]
        \* self.Y_perm.get_dim('time').times[k]
        times(k) == (self._crop_idx.istart + k) * tstep
        \* ndimage.find_objects(cmap)[cid - 1][time_ax]
        t_start(cid) ==
            SetMin({q[time_ax + 1] : q \in {r \in DOMAIN cmap : cmap[r] = cid}})
        t_stop(cid) ==
            SetMax({q[time_ax + 1] : q \in {r \in DOMAIN cmap : cmap[r] = cid}}) + 1
        row(ci) ==
            [p |-> cluster_p[ci],
             v |-> cluster_v[ci],
             cluster |-> uncrop_(self,
                            [q \in DOMAIN pmap_ |->
                                IF cmap[q] = cids[ci] THEN pmap_[q] ELSE 0], 0),
             tstart |-> times(t_start(cids[ci])),
             tstop |-> IF t_stop(cids[ci]) = len_time
                       THEN times(len_time - 1) + tstep
                       ELSE times(t_stop(cids[ci]))]
        cpmap == [q \in DOMAIN pmap_ |->
                     IF cmap[q] \in self._cids
                     THEN cluster_p[CHOOSE k \in 1..Len(cids) : cids[k] = cmap[q]]
                     ELSE 2 * n]
    IN  [self |-> [self EXCEPT
                      !.clusters = [none |-> FALSE,
                                    rows |-> [i \in 1..Len(cids) |->
                                                 row(sort_idx[i])]],
                      !.cpmap = uncrop_(self, cpmap, 2 * n),
                      !.pmap = self._original_pmap,
                      !.attrs = @ \cup {"clusters", "cpmap", "pmap", "all"}],
         exc |-> "none"])))))

\* pmap.swapaxes(0, self._nad_ax).reshape(self._flat_shape) raises ValueError
\* for a pmap of the given shape: it has no axis _nad_ax, or its size is no
\* multiple of shape[0]
FlattenFails(self, shape) ==
    /\ ~self._all_adjacent
    /\ \/ Len(shape) <= self._nad_ax
       \/ Prod(shape, 1) % self._flat_shape[1] # 0

\* the shape of the pmap as _label_clusters gets it: (shape[0], -1) with a
\* non-adjacent axis
FlatShape(self, shape) ==
    IF self._all_adjacent THEN shape
    ELSE <<self._flat_shape[1], Prod(shape, 1) \div self._flat_shape[1]>>

\* the pmap as _label_clusters gets it: with a non-adjacent axis, that axis
\* first and the other axes flattened
flatten_(self, pmap, shape) ==
    IF self._all_adjacent THEN pmap
    ELSE reshape(swapaxes(pmap, shape, 0, self._nad_ax),
                 SwapTuple(shape, 0, self._nad_ax), FlatShape(self, shape))

\* cmap.reshape(self._orig_shape) raises ValueError, for the label image of
\* a pmap of the given shape: the sizes differ
UnflattenFails(self, shape) ==
    /\ ~self._all_adjacent
    /\ Prod(shape, 1) # Prod(self._orig_shape, 1)

\* the label image returned to the shape of the (cropped) pmap
unflatten_(self, cmap, shape) ==
    IF self._all_adjacent THEN cmap
    ELSE swapaxes(reshape(cmap, FlatShape(self, shape), self._orig_shape),
                  self._orig_shape, 0, self._nad_ax)

\* add_original without the test for an earlier original
add_original_unguarded(self, pmap) ==
    IF FALSE
    THEN [self |-> self, exc |-> "RuntimeError"]
    ELSE
    Bind(crop_(self, pmap), LAMBDA pmap_ :
    Bind(ShapeOf(pmap_), LAMBDA shape :
    IF FlattenFails(self, shape)
    THEN [self |-> self, exc |-> "ValueError"]
    ELSE Bind(label_clusters(self, flatten_(self, pmap_, shape),
                             FlatShape(self, shape)), LAMBDA l :
         IF l.exc # "none" THEN [self |-> self, exc |-> l.exc]
         ELSE IF UnflattenFails(self, shape)
         THEN [self |-> self, exc |-> "ValueError"]
         ELSE Bind([self EXCEPT
                       !._cluster_im = unflatten_(self, l.cmap, shape),
                       !._original_pmap = pmap,
                       !._cids = l.cids,
                       !.n_clusters = Cardinality(l.cids),
                       !.attrs = @ \cup {"_cluster_im", "_original_pmap",
                                         "_cids", "n_clusters"}],
                   LAMBDA stored :
                       IF stored.n_clusters = 0 THEN finalize(stored)
                       ELSE [self |-> stored, exc |-> "none"]))))

\* add_original that leaves finalization to add_perm
add_original_lazy(self, pmap) ==
    IF "_cluster_im" \in self.attrs
    THEN [self |-> self, exc |-> "RuntimeError"]
    ELSE
    Bind(crop_(self, pmap), LAMBDA pmap_ :
    Bind(ShapeOf(pmap_), LAMBDA shape :
    IF FlattenFails(self, shape)
    THEN [self |-> self, exc |-> "ValueError"]
    ELSE Bind(label_clusters(self, flatten_(self, pmap_, shape),
                             FlatShape(self, shape)), LAMBDA l :
         IF l.exc # "none" THEN [self |-> self, exc |-> l.exc]
         ELSE IF UnflattenFails(self, shape)
         THEN [self |-> self, exc |-> "ValueError"]
         ELSE Bind([self EXCEPT
                       !._cluster_im = unflatten_(self, l.cmap, shape),
                       !._original_pmap = pmap,
                       !._cids = l.cids,
                       !.n_clusters = Cardinality(l.cids),
                       !.attrs = @ \cup {"_cluster_im", "_original_pmap",
                                         "_cids", "n_clusters"}],
                   LAMBDA stored :
                       IF FALSE THEN finalize(stored)
                       ELSE [self |-> stored, exc |-> "none"]))))

\* _ClusterDist.add_original
add_original(self, pmap) ==
    IF "_cluster_im" \in self.attrs
    THEN [self |-> self, exc |-> "RuntimeError"]
    ELSE
    Bind(crop_(self, pmap), LAMBDA pmap_ :
    Bind(ShapeOf(pmap_), LAMBDA shape :
    IF FlattenFails(self, shape)
    THEN [self |-> self, exc |-> "ValueError"]
    ELSE Bind(label_clusters(self, flatten_(self, pmap_, shape),
                             FlatShape(self, shape)), LAMBDA l :
         IF l.exc # "none" THEN [self |-> self, exc |-> l.exc]
         ELSE IF UnflattenFails(self, shape)
         THEN [self |-> self, exc |-> "ValueError"]
         ELSE Bind([self EXCEPT
                       !._cluster_im = unflatten_(self, l.cmap, shape),
                       !._original_pmap = pmap,
                       !._cids = l.cids,
                       !.n_clusters = Cardinality(l.cids),
                       !.attrs = @ \cup {"_cluster_im", "_original_pmap",
                                         "_cids", "n_clusters"}],
                   LAMBDA stored :
                       IF stored.n_clusters = 0 THEN finalize(stored)
                       ELSE [self |-> stored, exc |-> "none"]))))

\* add_perm with the finalization test one permutation early
add_perm_early(self, pmap) ==
    Bind([self EXCEPT !._i = @ - 1], LAMBDA dec :
    Bind(ShapeOf(pmap), LAMBDA shape :
    IF FlattenFails(self, shape) THEN [self |-> dec, exc |-> "ValueError"] ELSE
    Bind(flatten_(self, pmap, shape), LAMBDA flat :
    Bind(label_clusters(self, flat, FlatShape(self, shape)), LAMBDA l :
    Bind(IF dec._i >= 0 THEN dec._i ELSE Len(self.dist) + dec._i, LAMBDA slot :
        IF l.exc # "none" THEN [self |-> dec, exc |-> l.exc]
        ELSE IF l.cids # {} /\ slot < 0
        THEN [self |-> dec, exc |-> "IndexError"]
        ELSE Bind(IF l.cids # {}
                  THEN [dec EXCEPT !.dist[slot + 1] =
                           SetMax({Abs(ndimage_sum(flat, l.cmap, c)) :
                                      c \in l.cids})]
                  ELSE dec,
                  LAMBDA written :
                      IF written._i = 1 THEN finalize(written)
                      ELSE [self |-> written, exc |-> "none"]))))))

\* add_perm that records the largest cluster sum, not the largest magnitude
add_perm_signed(self, pmap) ==
    Bind([self EXCEPT !._i = @ - 1], LAMBDA dec :
    Bind(ShapeOf(pmap), LAMBDA shape :
    IF FlattenFails(self, shape) THEN [self |-> dec, exc |-> "ValueError"] ELSE
    Bind(flatten_(self, pmap, shape), LAMBDA flat :
    Bind(label_clusters(self, flat, FlatShape(self, shape)), LAMBDA l :
    Bind(IF dec._i >= 0 THEN dec._i ELSE Len(self.dist) + dec._i, LAMBDA slot :
        IF l.exc # "none" THEN [self |-> dec, exc |-> l.exc]
        ELSE IF l.cids # {} /\ slot < 0
        THEN [self |-> dec, exc |-> "IndexError"]
        ELSE Bind(IF l.cids # {}
                  THEN [dec EXCEPT !.dist[slot + 1] =
                           SetMax({ndimage_sum(flat, l.cmap, c) :
                                      c \in l.cids})]
                  ELSE dec,
                  LAMBDA written :
                      IF written._i = 0 THEN finalize(written)
                      ELSE [self |-> written, exc |-> "none"]))))))

\* add_perm that records every permutation in the first entry of dist
add_perm_first(self, pmap) ==
    Bind([self EXCEPT !._i = @ - 1], LAMBDA dec :
    Bind(ShapeOf(pmap), LAMBDA shape :
    IF FlattenFails(self, shape) THEN [self |-> dec, exc |-> "ValueError"] ELSE
    Bind(flatten_(self, pmap, shape), LAMBDA flat :
    Bind(label_clusters(self, flat, FlatShape(self, shape)), LAMBDA l :
    Bind(IF dec._i >= 0 THEN dec._i ELSE Len(self.dist) + dec._i, LAMBDA slot :
        IF l.exc # "none" THEN [self |-> dec, exc |-> l.exc]
        ELSE IF l.cids # {} /\ slot < 0
        THEN [self |-> dec, exc |-> "IndexError"]
        ELSE Bind(IF l.cids # {}
                  THEN [dec EXCEPT !.dist[1] =
                           SetMax({Abs(ndimage_sum(flat, l.cmap, c)) :
                                      c \in l.cids})]
                  ELSE dec,
                  LAMBDA written :
                      IF written._i = 0 THEN finalize(written)
                      ELSE [self |-> written, exc |-> "none"]))))))

\* add_perm that finalizes at the last permutation also when its map cannot
\* be flattened
add_perm_eager(self, pmap) ==
    Bind([self EXCEPT !._i = @ - 1], LAMBDA dec :
    Bind(ShapeOf(pmap), LAMBDA shape :
    IF FlattenFails(self, shape)
    THEN [self |-> IF dec._i = 0 THEN finalize(dec).self ELSE dec,
          exc |-> "ValueError"] ELSE
    Bind(flatten_(self, pmap, shape), LAMBDA flat :
    Bind(label_clusters(self, flat, FlatShape(self, shape)), LAMBDA l :
    Bind(IF dec._i >= 0 THEN dec._i ELSE Len(self.dist) + dec._i, LAMBDA slot :
        IF l.exc # "none" THEN [self |-> dec, exc |-> l.exc]
        ELSE IF l.cids # {} /\ slot < 0
        THEN [self |-> dec, exc |-> "IndexError"]
        ELSE Bind(IF l.cids # {}
                  THEN [dec EXCEPT !.dist[slot + 1] =
                           SetMax({Abs(ndimage_sum(flat, l.cmap, c)) :
                                      c \in l.cids})]
                  ELSE dec,
                  LAMBDA written :
                      IF written._i = 0 THEN finalize(written)
                      ELSE [self |-> written, exc |-> "none"]))))))

\* _ClusterDist.add_perm; dist[self._i] with a negative _i counts from the
\* end of dist, and is an IndexError below -len(dist)
add_perm(self, pmap) ==
    Bind([self EXCEPT !._i = @ - 1], LAMBDA dec :
    Bind(ShapeOf(pmap), LAMBDA shape :
    IF FlattenFails(self, shape) THEN [self |-> dec, exc |-> "ValueError"] ELSE
    Bind(flatten_(self, pmap, shape), LAMBDA flat :
    Bind(label_clusters(self, flat, FlatShape(self, shape)), LAMBDA l :
    Bind(IF dec._i >= 0 THEN dec._i ELSE Len(self.dist) + dec._i, LAMBDA slot :
        IF l.exc # "none" THEN [self |-> dec, exc |-> l.exc]
        ELSE IF l.cids # {} /\ slot < 0
        THEN [self |-> dec, exc |-> "IndexError"]
        ELSE Bind(IF l.cids # {}
                  THEN [dec EXCEPT !.dist[slot + 1] =
                           SetMax({Abs(ndimage_sum(flat, l.cmap, c)) :
                                      c \in l.cids})]
                  ELSE dec,
                  LAMBDA written :
                      IF written._i = 0 THEN finalize(written)
                      ELSE [self |-> written, exc |-> "none"]))))))

\* ------------------------------------------------------------ inputs
\* the parameter maps of a shape: at most n points with a value of vals, 0
\* elsewhere
Maps(shape, n, vals) ==
    UNION {{[p \in Points(shape) |-> IF p \in S THEN f[p] ELSE 0] :
                f \in [S -> vals]} :
           S \in {T \in SUBSET Points(shape) : Cardinality(T) <= n}}

\* the values beyond either threshold, and beyond a threshold that self has
\* (a value beyond an absent threshold is labeled like 0)
BothSigns == {-(Thr + 1), Thr + 1}
OwnSigns(self) ==
    {v \in BothSigns : (v > 0 /\ ~IsNone(self.t_upper))
                        \/ (v < 0 /\ ~IsNone(self.t_lower))}

\* the valid threshold pairs (t_upper, t_lower)
ThresholdPairs == {<<Some(Thr), None>>, <<None, Some(-Thr)>>, <<Some(Thr), Some(-Thr)>>}

\* the connectivity that joins every two sensors whose indices differ by d
Stride(n, d) == {<<a, a + d>> : a \in 0..(n - 1 - d)}
                \cup {<<a + d, a>> : a \in 0..(n - 1 - d)}

\* the analysis windows (tstart, tstop) that keep some but not all of the nT
\* time samples, and no window
Windows(nT) ==
    {<<None, None>>} \cup
    {<<IF a = 0 THEN None ELSE Some(a), IF b = nT THEN None ELSE Some(b)>> :
        <<a, b>> \in {w \in (0..(nT - 1)) \X (1..nT) :
                        w[1] < w[2] /\ w[2] - w[1] < nT}}

\* dependent variables of the call-sequence model: a time axis alone, and a
\* sensor axis with one time sample
SeqLayouts ==
    {Layout(<<SeqTimes>>, <<TRUE>>, {}, 0),
     Layout(<<SeqTimes, 1>>, <<FALSE, TRUE>>, Stride(SeqTimes, 1), 1)}

\* dependent variables of the labeling model, two non-case axes: a grid, and
\* sensor x time and time x sensor with a sensor graph
LabLayouts ==
    {Layout(<<LabSensors, LabTimes>>, <<TRUE, TRUE>>, {}, 1)}
    \cup {Layout(<<LabSensors, LabTimes>>, <<FALSE, TRUE>>,
                 Stride(LabSensors, d), 1) : d \in 1..(LabSensors - 1)}
    \cup {Layout(<<LabTimes, LabSensors>>, <<TRUE, FALSE>>,
                 Stride(LabSensors, d), 0) : d \in 1..(LabSensors - 1)}

\* three non-case axes: sensor (graph) x frequency x time
LabLayouts3 ==
    {Layout(<<LabSensors, LabFreqs, LabTimes>>, <<FALSE, TRUE, TRUE>>,
            Stride(LabSensors, d), 2) : d \in 1..(LabSensors - 1)}

\* ------------------------------------------------------------ state
VARIABLES
    cdist,     \* the _ClusterDist object
    calls,     \* the calls made on it so far: [op, exc] each, with the
               \* arguments of the call in the runs that compare them
    driver,    \* the test object whose __init__ drives cdist, or None
    caffeine,  \* system.caffeine, the Caffeinator of the process, or None
    processes  \* the caffeinate subprocesses started so far, in order:
               \* TRUE while running

vars == <<cdist, calls, driver, caffeine, processes>>

\* the accumulator is called directly: no driver runs, and nothing of the
\* system module is in use
Direct == driver = None /\ caffeine = None /\ processes = <<>>
DirectStep == UNCHANGED <<driver, caffeine, processes>>

Init ==
    /\ \E Y \in SeqLayouts, N \in 1..MaxN, t \in ThresholdPairs :
        \E w \in Windows(Y.shape[Y.time_ax + 1]) :
            cdist = ClusterDist_init(Y, N, t[1], t[2], w[1], w[2])
    /\ calls = <<>>
    /\ Direct

Call(op, r) ==
    /\ cdist' = r.self
    /\ calls' = Append(calls, [op |-> op, exc |-> r.exc])
    /\ DirectStep

\* cdist.add_original(pmap) with a map of Y's non-case shape
AddOriginal ==
    /\ Len(calls) < MaxCalls
    /\ \E pmap \in Maps(cdist.Y.shape, SeqSupra, BothSigns) :
        Call("add_original", add_original(cdist, pmap))

\* cdist.add_perm(pmap) with a map of Y_perm's non-case shape
AddPerm ==
    /\ Len(calls) < MaxCalls
    /\ \E pmap \in Maps(cdist.Y_perm, SeqSupra, BothSigns) :
        Call("add_perm", add_perm(cdist, pmap))

Next == AddOriginal \/ AddPerm

Spec == Init /\ [][Next]_vars

\* the labeling model: one add_original on a fresh accumulator
InitLabel ==
    /\ \E Y \in LabLayouts, t \in ThresholdPairs :
        cdist = ClusterDist_init(Y, 1, t[1], t[2], None, None)
    /\ calls = <<>>
    /\ Direct

LabelOriginal ==
    /\ calls = <<>>
    /\ \E pmap \in Maps(cdist.Y.shape, MaxSupra, OwnSigns(cdist)) :
        Call("add_original", add_original(cdist, pmap))

SpecLabel == InitLabel /\ [][LabelOriginal]_vars

InitLabel3 ==
    /\ \E Y \in LabLayouts3, t \in ThresholdPairs :
        cdist = ClusterDist_init(Y, 1, t[1], t[2], None, None)
    /\ calls = <<>>
    /\ Direct

SpecLabel3 == InitLabel3 /\ [][LabelOriginal]_vars

\* ------------------------------------------------------------ properties
\* N, the number of permutations cdist was constructed with
NPerm == Len(cdist.dist)

\* the number of add_perm calls made so far
PermCalls == Cardinality({k \in 1..Len(calls) : calls[k].op = "add_perm"})

\* the first call was add_original, so every add_perm came after it
OriginalFirst == calls # <<>> /\ calls[1].op = "add_original"

\* the result attributes cdist has
Results == cdist.attrs \cap {"clusters", "cpmap", "pmap"}

\* v is beyond a threshold of cdist
Exceeds(v) ==
    \/ ~IsNone(cdist.t_upper) /\ v > Val(cdist.t_upper)
    \/ ~IsNone(cdist.t_lower) /\ v < Val(cdist.t_lower)

\* the time sample of point p of Y lies in the analysis window
InWindow(p) ==
    LET t == p[cdist.Y.time_ax + 1] IN
    /\ IsNone(cdist.tstart) \/ t >= Val(cdist.tstart)
    /\ IsNone(cdist.tstop) \/ t < Val(cdist.tstop)

\* C1: when add_original came first and found at least one cluster, cdist has
\* no result before the N-th add_perm call, and from the N-th call on it has
\* the cluster table (one row per cluster), the cluster-probability map and
\* the statistic map.
C1_FinalizedAtNthPerm ==
    (OriginalFirst /\ cdist.n_clusters >= 1) =>
        /\ PermCalls < NPerm => Results = {}
        /\ PermCalls >= NPerm =>
              /\ Results = {"clusters", "cpmap", "pmap"}
              /\ ~cdist.clusters.none
              /\ Len(cdist.clusters.rows) = cdist.n_clusters

C1_Witness ==
    /\ OriginalFirst /\ cdist.n_clusters >= 1
    /\ NPerm >= 2 /\ PermCalls = NPerm
    /\ calls[Len(calls)].op = "add_perm"
    /\ Results = {"clusters", "cpmap", "pmap"}

\* C2: after add_original, the (N+1)-th and every later add_perm call raises
\* the "too many permutations" RuntimeError.
C2_ExtraPermRaises ==
    OriginalFirst =>
        \A k \in 1..Len(calls) :
            (/\ calls[k].op = "add_perm"
             /\ Cardinality({j \in 1..k : calls[j].op = "add_perm"}) > NPerm)
            => calls[k].exc = "RuntimeError"

\* C3: an add_original call made after an earlier add_original call raises
\* and leaves the label image, the cluster ids, n_clusters, the stored
\* original map, the counter and the null distribution as they were.
C3_SecondOriginalRejected ==
    [][(/\ Len(calls') = Len(calls) + 1
        /\ calls'[Len(calls')].op = "add_original"
        /\ \E k \in 1..Len(calls) : calls[k].op = "add_original")
       => (/\ calls'[Len(calls')].exc = "RuntimeError"
           /\ cdist'._cluster_im = cdist._cluster_im
           /\ cdist'._cids = cdist._cids
           /\ cdist'.n_clusters = cdist.n_clusters
           /\ cdist'._original_pmap = cdist._original_pmap
           /\ cdist'._i = cdist._i
           /\ cdist'.dist = cdist.dist
           /\ cdist'.attrs = cdist.attrs)]_vars

C3_Witness ==
    /\ Len(calls) = 2
    /\ calls[1] = [op |-> "add_original", exc |-> "none"]
    /\ calls[2] = [op |-> "add_original", exc |-> "RuntimeError"]
    /\ cdist.n_clusters = 0

\* C4: while no add_original call has been made, every add_perm call raises,
\* the counter is still N and the null distribution is still all zero.
C4_PermNeedsOriginal ==
    (\A k \in 1..Len(calls) : calls[k].op # "add_original") =>
        /\ \A k \in 1..Len(calls) : calls[k].exc # "none"
        /\ cdist._i = NPerm
        /\ \A j \in 1..NPerm : cdist.dist[j] = 0

\* C5: when add_original is the first call and no point of its map inside the
\* analysis window is beyond a threshold, that call returns normally with
\* n_clusters = 0 and the cluster table set to None: cdist is finalized with
\* no add_perm call.
C5_ZeroClustersFinalize ==
    (/\ OriginalFirst
     /\ \A p \in DOMAIN cdist._original_pmap :
            InWindow(p) => ~Exceeds(cdist._original_pmap[p]))
    => (/\ calls[1].exc = "none"
        /\ cdist.n_clusters = 0
        /\ "clusters" \in cdist.attrs
        /\ cdist.clusters = [none |-> TRUE, rows |-> <<>>])

C5_Witness ==
    /\ Len(calls) = 1 /\ OriginalFirst
    /\ cdist.crop
    /\ \E p \in DOMAIN cdist._original_pmap :
           ~InWindow(p) /\ Exceeds(cdist._original_pmap[p])
    /\ cdist.n_clusters = 0
    /\ "clusters" \in cdist.attrs

\* C6: after a first add_original that found no cluster, cdist has the
\* statistic map and a cluster-probability map that is 1.0 at every point.
C6_ZeroClusterMaps ==
    (OriginalFirst /\ calls[1].exc = "none" /\ cdist.n_clusters = 0) =>
        /\ "pmap" \in cdist.attrs
        /\ "cpmap" \in cdist.attrs
        /\ cdist.pmap = cdist._original_pmap
        /\ \A p \in DOMAIN cdist.cpmap : cdist.cpmap[p] = 2 * NPerm

\* C7: once cdist is finalized, no call changes the counter, the null
\* distribution, the cluster table or the cluster-probability map.
C7_FinalizedIsFrozen ==
    [][("clusters" \in cdist.attrs) =>
          (/\ cdist'._i = cdist._i
           /\ cdist'.dist = cdist.dist
           /\ cdist'.clusters = cdist.clusters
           /\ cdist'.cpmap = cdist.cpmap)]_vars

\* the points of the labeled (cropped) map above t_upper, and below t_lower
LabeledMap == crop_(cdist, cdist._original_pmap)
SupraAbove ==
    {p \in DOMAIN LabeledMap :
        ~IsNone(cdist.t_upper) /\ LabeledMap[p] > Val(cdist.t_upper)}
SupraBelow ==
    {p \in DOMAIN LabeledMap :
        ~IsNone(cdist.t_lower) /\ LabeledMap[p] < Val(cdist.t_lower)}

\* p and q differ along exactly one axis: by one index step when the axis is
\* regular, by an edge of the connectivity graph when it is not
Neighbours(p, q) ==
    \E k \in 1..Len(p) :
        /\ \A j \in 1..Len(p) : j # k => p[j] = q[j]
        /\ IF cdist.Y.adjacent[k]
           THEN Abs(p[k] - q[k]) = 1
           ELSE <<p[k], q[k]>> \in cdist.Y.conn \/ <<q[k], p[k]>> \in cdist.Y.conn

\* the points of S joined to p by a path of neighbours inside S
Component(S, p) ==
    LET RECURSIVE Grow(_)
        Grow(R) ==
            LET R2 == R \cup {q \in S : \E r \in R : Neighbours(r, q)}
            IN  IF R2 = R THEN R ELSE Grow(R2)
    IN  Grow({p})

\* two points of the same sign have the same label exactly when a path of
\* neighbours of that sign joins them
LabelsAreComponents ==
    \A S \in {SupraAbove, SupraBelow} :
        \A p, q \in S :
            (cdist._cluster_im[p] = cdist._cluster_im[q]) <=> (q \in Component(S, p))

\* C8: on a pure grid, two supra-threshold points of the same sign have the
\* same label exactly when a path of single-axis unit steps through points of
\* that sign joins them.
C8_GridConnectivity ==
    (calls # <<>> /\ cdist._all_adjacent) => LabelsAreComponents

C8_Witness ==
    /\ calls # <<>> /\ cdist._all_adjacent
    /\ \E p, q \in SupraAbove :
          /\ \A k \in 1..Len(p) : p[k] # q[k]
          /\ cdist._cluster_im[p] = cdist._cluster_im[q]

\* C9: with one graph axis and one or more regular axes, two supra-threshold
\* points of the same sign have the same label exactly when a path of graph
\* edges (regular indices equal) and regular unit steps joins them.
C9_GraphConnectivity ==
    (calls # <<>> /\ ~cdist._all_adjacent) => LabelsAreComponents

\* the labels given to the points of S
LabelsOf(S) == {cdist._cluster_im[p] : p \in S}

\* S is one connected region
IsRegion(S) == S # {} /\ \A p \in S : Component(S, p) = S

\* C10: with both thresholds, every supra-threshold point has a positive id
\* of the cluster id set, no id is given to points of both signs, the ids are
\* those of the clusters above plus those of the clusters below, and one
\* connected region above with one connected region below makes exactly two
\* clusters.
C10_TwoTailedDisjoint ==
    (calls # <<>> /\ ~IsNone(cdist.t_upper) /\ ~IsNone(cdist.t_lower)) =>
        /\ \A p \in SupraAbove \cup SupraBelow :
              cdist._cluster_im[p] >= 1 /\ cdist._cluster_im[p] \in cdist._cids
        /\ LabelsOf(SupraAbove) \cap LabelsOf(SupraBelow) = {}
        /\ cdist._cids = LabelsOf(SupraAbove) \cup LabelsOf(SupraBelow)
        /\ cdist.n_clusters = Cardinality(LabelsOf(SupraAbove))
                              + Cardinality(LabelsOf(SupraBelow))
        /\ (IsRegion(SupraAbove) /\ IsRegion(SupraBelow)) => cdist.n_clusters = 2

\* ------------------------------------------------------------ driver runs
\* A run as cluster_corr drives it: the original map first, then, when it has
\* a cluster, one permuted map per sample.
\* the values beyond a threshold that self has, of two magnitudes
OwnValues(self) ==
    {v \in {-(Thr + 2), -(Thr + 1), Thr + 1, Thr + 2} :
        (v > 0 /\ ~IsNone(self.t_upper)) \/ (v < 0 /\ ~IsNone(self.t_lower))}

\* the parameter maps with at most one point beyond a threshold
PointMaps(shape, vals) == Maps(shape, 1, vals)

\* the analysis windows strictly inside the nT time samples: they drop the
\* first and the last sample at least
InnerWindows(nT) ==
    {<<Some(a), Some(b)>> : <<a, b>> \in {w \in (1..(nT - 2)) \X (2..(nT - 1)) :
                                            w[1] < w[2]}}

InitRun ==
    /\ \E N \in 1..MaxN, t \in ThresholdPairs :
        \E w \in {<<None, None>>} \cup InnerWindows(RunTimes) :
            cdist = ClusterDist_init(Layout(<<RunTimes>>, <<TRUE>>, {}, 0),
                                     N, t[1], t[2], w[1], w[2])
    /\ calls = <<>>
    /\ Direct

\* cdist.add_original(r)
RunOriginal ==
    /\ calls = <<>>
    /\ \E pmap \in Maps(cdist.Y.shape, RunSupra, OwnValues(cdist)) :
        Call("add_original", add_original(cdist, pmap))

\* if cdist.n_clusters: for Yrs in resample(Y, samples): cdist.add_perm(r)
RunPerm ==
    /\ calls # <<>>
    /\ cdist.n_clusters # 0
    /\ PermCalls < NPerm
    /\ \E pmap \in PointMaps(cdist.Y_perm, OwnValues(cdist)) :
        Call("add_perm", add_perm(cdist, pmap))

NextRun == RunOriginal \/ RunPerm

SpecRun == InitRun /\ [][NextRun]_vars

\* ------------------------------------------------------------ permutations
\* a run whose permuted maps may be above threshold at every point, after an
\* original map with one point above threshold
PermMaps(self) == Maps(self.Y_perm, RunTimes, OwnSigns(self))

InitPerm ==
    /\ \E N \in 1..MaxN, t \in ThresholdPairs :
        cdist = ClusterDist_init(Layout(<<RunTimes>>, <<TRUE>>, {}, 0),
                                 N, t[1], t[2], None, None)
    /\ calls = <<>>
    /\ Direct

PermOriginal ==
    /\ calls = <<>>
    /\ \E pmap \in PointMaps(cdist.Y.shape, OwnSigns(cdist)) :
        Call("add_original", add_original(cdist, pmap))

PermPermute ==
    /\ calls # <<>>
    /\ cdist.n_clusters # 0
    /\ Cardinality({k \in 1..Len(calls) : calls[k].op = "add_perm"}) < Len(cdist.dist)
    /\ \E pmap \in PermMaps(cdist) :
        Call("add_perm", add_perm(cdist, pmap))

NextPerm == PermOriginal \/ PermPermute

SpecPerm == InitPerm /\ [][NextPerm]_vars

\* ------------------------------------------------------------ orderings
\* a run that remembers its permuted maps: calls holds the map of every
\* add_perm call; a permuted map is 0 or has one value at the first sample
FirstPointMaps(self) ==
    {[p \in Points(self.Y_perm) |-> IF \A k \in 1..Len(p) : p[k] = 0 THEN v ELSE 0] :
        v \in OwnValues(self) \cup {0}}

InitOrder ==
    /\ \E N \in 1..MaxN, t \in ThresholdPairs :
        cdist = ClusterDist_init(Layout(<<RunTimes>>, <<TRUE>>, {}, 0),
                                 N, t[1], t[2], None, None)
    /\ calls = <<>>
    /\ Direct

OrderOriginal ==
    /\ calls = <<>>
    /\ \E pmap \in Maps(cdist.Y.shape, RunSupra, OwnSigns(cdist)) :
        Call("add_original", add_original(cdist, pmap))

OrderPermute ==
    /\ calls # <<>>
    /\ cdist.n_clusters # 0
    /\ Len(calls) - 1 < Len(cdist.dist)
    /\ \E pmap \in FirstPointMaps(cdist) :
        /\ cdist' = add_perm(cdist, pmap).self
        /\ calls' = Append(calls, [op |-> "add_perm",
                                   exc |-> add_perm(cdist, pmap).exc,
                                   pmap |-> pmap])
    /\ DirectStep

NextOrder == OrderOriginal \/ OrderPermute

SpecOrder == InitOrder /\ [][NextOrder]_vars

\* ------------------------------------------------------------ construction
\* the thresholds a caller may pass: none, 0, and values of either sign
Thresholds == {None} \cup {Some(v) : v \in (-(Thr + 1))..(Thr + 1)}

\* dependent variables with no, one, two and three non-adjacent axes
NewLayouts ==
    LabLayouts \cup LabLayouts3
    \cup {Layout(<<LabTimes>>, <<TRUE>>, {}, 0),
          Layout(<<LabSensors, LabSensors>>, <<FALSE, FALSE>>,
                 Stride(LabSensors, 1), 0),
          Layout(<<LabSensors, LabSensors, LabTimes>>, <<FALSE, FALSE, TRUE>>,
                 Stride(LabSensors, 1), 2),
          Layout(<<LabSensors, LabFreqs, LabSensors>>, <<FALSE, TRUE, FALSE>>,
                 Stride(LabSensors, 1), 1),
          Layout(<<LabSensors, LabSensors, LabSensors>>, <<FALSE, FALSE, FALSE>>,
                 Stride(LabSensors, 1), 0)}

\* no _ClusterDist yet
InitNew ==
    /\ cdist = None
    /\ calls = <<>>
    /\ Direct

\* cdist = _ClusterDist(Y, N, t_upper, t_lower, close_time=close_time)
Construct ==
    /\ calls = <<>>
    /\ \E Y \in NewLayouts, N \in 1..MaxN, t_upper \in Thresholds,
          t_lower \in Thresholds, close_time \in {0, tstep} :
        /\ cdist' = ClusterDist_new(Y, N, t_upper, t_lower, None, None,
                                    close_time).self
        /\ calls' = <<[op |-> "__init__",
                       exc |-> ClusterDist_new(Y, N, t_upper, t_lower, None,
                                               None, close_time).exc,
                       Y |-> Y, t_upper |-> t_upper, t_lower |-> t_lower,
                       close_time |-> close_time]>>
    /\ DirectStep

\* cdist.add_original(pmap) on the object that was constructed
NewOriginal ==
    /\ Len(calls) = 1
    /\ cdist # None
    /\ \E pmap \in FirstPointMaps(cdist) :
        Call("add_original", add_original(cdist, pmap))

NextNew == Construct \/ NewOriginal

SpecNew == InitNew /\ [][NextNew]_vars

\* ------------------------------------------------------------ results
\* the point of the cropped map that point p of the window is
ToCropped(p) ==
    [p EXCEPT ![cdist.Y.time_ax + 1] =
        @ - (IF IsNone(cdist.tstart) THEN 0 ELSE Val(cdist.tstart))]

\* the points of the original cluster with id cid
ClusterPoints(cid) ==
    {p \in DOMAIN cdist._original_pmap :
        InWindow(p) /\ cdist._cluster_im[ToCropped(p)] = cid}

\* the sum of f over S
SumOver(f, S) ==
    LET RECURSIVE Acc(_)
        Acc(T) == IF T = {} THEN 0
                  ELSE LET x == CHOOSE y \in T : TRUE IN f[x] + Acc(T \ {x})
    IN  Acc(S)

\* the mass of an original cluster
Mass(cid) == SumOver(cdist._original_pmap, ClusterPoints(cid))

\* twice the fraction of the entries of dist above x, an entry equal to x
\* counting one half, as a numerator over 2 * Len(dist)
TailCount(dist, x) ==
    Cardinality({k \in 1..Len(dist) : dist[k] > x})
    + Cardinality({k \in 1..Len(dist) : dist[k] >= x})

\* the points where a map is not 0
Support(im) == {p \in DOMAIN im : im[p] # 0}

\* cdist has a cluster table
HasTable == "clusters" \in cdist.attrs /\ ~cdist.clusters.none

\* the rows of the cluster table for the cluster with id cid
RowsOf(cid) ==
    {i \in 1..Len(cdist.clusters.rows) :
        Support(cdist.clusters.rows[i].cluster) = ClusterPoints(cid)}

\* C11: at finalization every original cluster has one row in the table, with
\* its mass v (the sum of the original map over its points) and with
\* p = (#{null entries > |v|} + #{null entries >= |v|}) / (2N); every p is
\* between 0 and 1.
C11_PValueFormula ==
    (HasTable /\ cdist._i = 0) =>
        /\ Len(cdist.clusters.rows) = Cardinality(cdist._cids)
        /\ \A cid \in cdist._cids :
              /\ Cardinality(RowsOf(cid)) = 1
              /\ \A i \in RowsOf(cid) :
                    /\ cdist.clusters.rows[i].v = Mass(cid)
                    /\ cdist.clusters.rows[i].p
                           = TailCount(cdist.dist, Abs(Mass(cid)))
        /\ \A i \in 1..Len(cdist.clusters.rows) :
              /\ cdist.clusters.rows[i].p >= 0
              /\ cdist.clusters.rows[i].p <= 2 * NPerm

\* a finalized run with two clusters and a null entry equal to the absolute
\* mass of one of them
C11_Witness ==
    /\ HasTable /\ cdist._i = 0
    /\ Len(cdist.clusters.rows) = 2
    /\ \E i \in 1..2, k \in 1..NPerm :
          /\ cdist.dist[k] = Abs(cdist.clusters.rows[i].v)
          /\ cdist.clusters.rows[i].p % 2 = 1

\* the p-value of the original cluster with id cid
PValue(cid) == TailCount(cdist.dist, Abs(Mass(cid)))

\* C12: in the finalized cluster-probability map every point of an original
\* cluster holds the p-value of that cluster, which is also the p of its row
\* of the table, and every other point holds 1.0.
C12_ProbabilityMap ==
    (HasTable /\ cdist._i = 0) =>
        /\ DOMAIN cdist.cpmap = DOMAIN cdist._original_pmap
        /\ \A p \in DOMAIN cdist.cpmap :
              IF \E cid \in cdist._cids : p \in ClusterPoints(cid)
              THEN \A cid \in cdist._cids :
                      p \in ClusterPoints(cid) =>
                          /\ cdist.cpmap[p] = PValue(cid)
                          /\ \A i \in RowsOf(cid) :
                                cdist.cpmap[p] = cdist.clusters.rows[i].p
              ELSE cdist.cpmap[p] = 2 * NPerm

\* a finalized map with two p-values below 1.0 and a point in no cluster
C12_Witness ==
    /\ HasTable /\ cdist._i = 0
    /\ \E p, q, r \in DOMAIN cdist.cpmap :
          /\ cdist.cpmap[p] < cdist.cpmap[q]
          /\ cdist.cpmap[q] < 2 * NPerm
          /\ cdist.cpmap[r] = 2 * NPerm
          /\ cdist._original_pmap[r] = 0

\* the time samples of the original cluster with id cid
ClusterTimes(cid) == {p[cdist.Y.time_ax + 1] : p \in ClusterPoints(cid)}

\* row i of the cluster table describes the cluster with id cid
RowIsCluster(i, cid) ==
    LET row == cdist.clusters.rows[i] IN
    /\ Support(row.cluster) = ClusterPoints(cid)
    /\ \A q \in ClusterPoints(cid) : row.cluster[q] = cdist._original_pmap[q]
    /\ row.v = Mass(cid)
    /\ row.p = PValue(cid)
    /\ row.tstart = SetMin(ClusterTimes(cid)) * tstep
    /\ row.tstop = (SetMax(ClusterTimes(cid)) + 1) * tstep

\* C16: the rows of the finalized cluster table are in non-decreasing order of
\* p, and the p-value, the mass, the time window and the cluster map of a row
\* all belong to one and the same original cluster.
C16_TableSorted ==
    (HasTable /\ cdist._i = 0) =>
        /\ \A i \in 1..(Len(cdist.clusters.rows) - 1) :
              cdist.clusters.rows[i].p <= cdist.clusters.rows[i + 1].p
        /\ \A i \in 1..Len(cdist.clusters.rows) :
              \E cid \in cdist._cids : RowIsCluster(i, cid)

\* a table whose first row is the cluster with the larger id: sorting by p
\* changed the order of the clusters
C16_Witness ==
    /\ HasTable /\ cdist._i = 0
    /\ Len(cdist.clusters.rows) = 2
    /\ cdist.clusters.rows[1].p < cdist.clusters.rows[2].p
    /\ RowIsCluster(1, SetMax(cdist._cids))
    /\ RowIsCluster(2, SetMin(cdist._cids))

\* the results computed on the cropped map alone: an accumulator without a
\* window for data of the cropped shape, given the cropped original map and
\* the null distribution of cdist
CroppedResults ==
    LET Y2 == Layout(cdist.Y_perm, cdist.Y.adjacent, cdist.Y.conn, cdist.Y.time_ax)
        c0 == ClusterDist_init(Y2, NPerm, cdist.t_upper, cdist.t_lower, None, None)
        c1 == add_original(c0, crop_(cdist, cdist._original_pmap)).self
    IN  finalize([c1 EXCEPT !.dist = cdist.dist, !._i = 0]).self

\* C15: with an analysis window strictly inside the time range, a point
\* outside the window is in no cluster, holds 0 in every per-cluster map and
\* 1.0 in the cluster-probability map; a point inside the window holds the
\* value that is computed on the cropped map.
C15_CropBackground ==
    (cdist.crop /\ HasTable /\ cdist._i = 0) =>
        /\ DOMAIN cdist._cluster_im = {ToCropped(p) : p \in {q \in DOMAIN cdist._original_pmap : InWindow(q)}}
        /\ Len(cdist.clusters.rows) = Len(CroppedResults.clusters.rows)
        /\ \A p \in DOMAIN cdist._original_pmap :
              IF InWindow(p)
              THEN /\ cdist.cpmap[p] = CroppedResults.cpmap[ToCropped(p)]
                   /\ \A i \in 1..Len(cdist.clusters.rows) :
                         cdist.clusters.rows[i].cluster[p] =
                             CroppedResults.clusters.rows[i].cluster[ToCropped(p)]
              ELSE /\ cdist.cpmap[p] = 2 * NPerm
                   /\ \A cid \in cdist._cids : p \notin ClusterPoints(cid)
                   /\ \A i \in 1..Len(cdist.clusters.rows) :
                         cdist.clusters.rows[i].cluster[p] = 0

\* a finalized run with a window strictly inside the time range, a cluster
\* inside the window with p below 1.0 and a point above threshold before the
\* window
C15_Witness ==
    /\ cdist.crop /\ HasTable /\ cdist._i = 0
    /\ Val(cdist.tstart) > 0
    /\ Val(cdist.tstop) < cdist.Y.shape[cdist.Y.time_ax + 1]
    /\ \E p, q \in DOMAIN cdist._original_pmap :
          /\ ~InWindow(p) /\ Abs(cdist._original_pmap[p]) > Thr
          /\ cdist.cpmap[p] = 2 * NPerm
          /\ InWindow(q) /\ cdist.cpmap[q] < 2 * NPerm
          /\ cdist.clusters.rows[1].cluster[q] # 0

\* the magnitudes a run can produce as a cluster mass, and one beyond
Magnitudes == 0..(RunSupra * (Thr + 2) + 1)

\* p of the mass v does not go down when x joins the null distribution dist;
\* both p are fractions, over 2 * (Len(dist) + 1) and over 2 * Len(dist)
NotLowerWith(dist, v, x) ==
    cluster_p_of(Append(dist, x), v) * Len(dist)
        >= cluster_p_of(dist, v) * (Len(dist) + 1)

\* p of the mass v does not go up when x joins the null distribution dist
NotHigherWith(dist, v, x) ==
    cluster_p_of(Append(dist, x), v) * Len(dist)
        <= cluster_p_of(dist, v) * (Len(dist) + 1)

\* C17: for the mass v of an original cluster and the null distribution of
\* cdist, one more null value above |v| never lowers the p-value of the
\* cluster and one more null value below |v| never raises it.
C17_Monotone ==
    ("_cids" \in cdist.attrs) =>
        \A cid \in cdist._cids : \A x \in Magnitudes :
            /\ x > Abs(Mass(cid)) => NotLowerWith(cdist.dist, Abs(Mass(cid)), x)
            /\ x < Abs(Mass(cid)) => NotHigherWith(cdist.dist, Abs(Mass(cid)), x)

\* a finalized run where a larger null value raises the p-value of a cluster
\* and a smaller one lowers it
C17_Witness ==
    /\ HasTable /\ cdist._i = 0
    /\ \E cid \in cdist._cids : \E x, y \in Magnitudes :
          /\ x > Abs(Mass(cid)) /\ y < Abs(Mass(cid))
          /\ ~NotHigherWith(cdist.dist, Abs(Mass(cid)), x)
          /\ ~NotLowerWith(cdist.dist, Abs(Mass(cid)), y)

\* the clusters of a permuted map: the connected sets of points above
\* t_upper, and of points below t_lower
ClustersOf(pmap) ==
    LET above == {p \in DOMAIN pmap :
                     ~IsNone(cdist.t_upper) /\ pmap[p] > Val(cdist.t_upper)}
        below == {p \in DOMAIN pmap :
                     ~IsNone(cdist.t_lower) /\ pmap[p] < Val(cdist.t_lower)}
    IN  {Component(above, p) : p \in above} \cup {Component(below, p) : p \in below}

\* the largest magnitude of a cluster sum of a permuted map, 0 without cluster
MaxMass(pmap) ==
    IF ClustersOf(pmap) = {} THEN 0
    ELSE SetMax({Abs(SumOver(pmap, c)) : c \in ClustersOf(pmap)})

\* C13: an add_perm call that is one of the N permutations (the counter is
\* above 0 before it) changes the null distribution in at most one entry, an
\* entry that was 0: the entry becomes the largest magnitude of a cluster sum
\* of the permuted map, and stays 0 when no point of the map is beyond a
\* threshold; no entry of the null distribution is below 0.
C13_RecordsMax ==
    /\ \A k \in 1..NPerm : cdist.dist[k] >= 0
    /\ cdist._i > 0 =>
          \A pmap \in PermMaps(cdist) :
              \E k \in 1..NPerm :
                  /\ cdist.dist[k] = 0
                  /\ add_perm(cdist, pmap).self.dist =
                         [cdist.dist EXCEPT ![k] = MaxMass(pmap)]

\* after a first permutation that recorded a value: a permuted map with two
\* clusters whose largest sum is positive and smaller in magnitude than the
\* sum of the other cluster, and a permuted map without cluster
C13_Witness ==
    /\ cdist._i > 0
    /\ \E k \in 1..NPerm : cdist.dist[k] > 0
    /\ \E pmap \in PermMaps(cdist) : \E c, d \in ClustersOf(pmap) :
          /\ SumOver(pmap, c) > 0
          /\ SumOver(pmap, d) < 0 - SumOver(pmap, c)
          /\ add_perm(cdist, pmap).self.dist # cdist.dist
    /\ \E pmap \in PermMaps(cdist) :
          /\ ClustersOf(pmap) = {}
          /\ add_perm(cdist, pmap).self.dist = cdist.dist

\* the permuted maps of the run so far, in the order of the calls
PermutedMaps == [k \in 1..(Len(calls) - 1) |-> calls[k + 1].pmap]

\* the orderings of n things
Orderings(n) == {f \in [1..n -> 1..n] : \A a, b \in 1..n : f[a] = f[b] => a = b}

RECURSIVE PermuteAll(_, _)
\* the accumulator after add_perm with each map of ms in turn
PermuteAll(self, ms) ==
    IF ms = <<>> THEN self
    ELSE PermuteAll(add_perm(self, Head(ms)).self, Tail(ms))

\* the run of cdist made again with the permuted maps ms: a new accumulator
\* with the same parameters, the same original map, then ms
Rerun(ms) ==
    PermuteAll(add_original(ClusterDist_init(cdist.Y, NPerm, cdist.t_upper,
                                             cdist.t_lower, cdist.tstart,
                                             cdist.tstop),
                            cdist._original_pmap).self,
               ms)

\* C14: a finalized run and the same run with its N permuted maps in any
\* other order have the same cluster table (p-values included) and the same
\* cluster-probability map.
C14_OrderIndependent ==
    (HasTable /\ cdist._i = 0) =>
        \A f \in Orderings(NPerm) :
            /\ Rerun([k \in 1..NPerm |-> PermutedMaps[f[k]]]).clusters = cdist.clusters
            /\ Rerun([k \in 1..NPerm |-> PermutedMaps[f[k]]]).cpmap = cdist.cpmap

\* a finalized run with permuted maps that record different values, so that
\* another order gives another null distribution, and with a cluster whose p
\* is neither 0 nor 1
C14_Witness ==
    /\ HasTable /\ cdist._i = 0
    /\ Rerun(PermutedMaps) = cdist
    /\ \E f \in Orderings(NPerm) :
          Rerun([k \in 1..NPerm |-> PermutedMaps[f[k]]]).dist # cdist.dist
    /\ \E i \in 1..Len(cdist.clusters.rows) :
          /\ cdist.clusters.rows[i].p > 0
          /\ cdist.clusters.rows[i].p < 2 * NPerm

\* the threshold pair of the constructor call is one that the data model
\* forbids by sign or symmetry
BadPair ==
    \/ ~IsNone(calls[1].t_upper) /\ Val(calls[1].t_upper) <= 0
    \/ ~IsNone(calls[1].t_lower) /\ Val(calls[1].t_lower) >= 0
    \/ /\ ~IsNone(calls[1].t_upper) /\ ~IsNone(calls[1].t_lower)
       /\ Val(calls[1].t_lower) # -Val(calls[1].t_upper)

\* the non-adjacent non-case axes of the dependent variable of the
\* constructor call, counted from 0
NonAdjacentAxes ==
    {k \in 0..(Len(calls[1].Y.adjacent) - 1) : ~calls[1].Y.adjacent[k + 1]}

\* C18: the constructor call with t_upper and t_lower both absent raises the
\* threshold error, so that no map is ever submitted.
C18_BothAbsentRejected ==
    (calls # <<>> /\ IsNone(calls[1].t_upper) /\ IsNone(calls[1].t_lower)) =>
        /\ calls[1].exc = "ValueError"
        /\ cdist = None

\* C19: the constructor call with t_upper <= 0, with t_lower >= 0, or with
\* both present and t_lower # -t_upper raises the threshold error and leaves
\* no object; any other pair with a threshold present passes the threshold
\* test, and gives an object with these thresholds when the adjacency is
\* supported and no gap closing is asked for.
C19_ThresholdPairs ==
    calls # <<>> =>
        /\ BadPair => (calls[1].exc = "ValueError" /\ cdist = None)
        /\ (~BadPair /\ ~(IsNone(calls[1].t_upper) /\ IsNone(calls[1].t_lower))) =>
              /\ calls[1].exc # "ValueError"
              /\ (Cardinality(NonAdjacentAxes) <= 1 /\ calls[1].close_time = 0) =>
                    /\ calls[1].exc = "none"
                    /\ cdist # None
                    /\ cdist.t_upper = calls[1].t_upper
                    /\ cdist.t_lower = calls[1].t_lower

\* a constructor call that failed on the symmetry of two thresholds of the
\* right signs
C19_Witness ==
    /\ calls # <<>>
    /\ ~IsNone(calls[1].t_upper) /\ Val(calls[1].t_upper) > 0
    /\ ~IsNone(calls[1].t_lower) /\ Val(calls[1].t_lower) < 0
    /\ calls[1].exc = "ValueError"
    /\ cdist = None

C29_CounterAndSlots ==
    /\ [](/\ cdist._i >= 0
          /\ cdist._i <= NPerm
          /\ \A j \in 0..(NPerm - 1) : j < cdist._i => cdist.dist[j + 1] = 0)
    /\ [][(/\ Len(calls') = Len(calls) + 1
           /\ calls'[Len(calls')].op = "add_perm")
          => \A j \in 0..(NPerm - 1) :
                j # NPerm - (PermCalls + 1) => cdist'.dist[j + 1] = cdist.dist[j + 1]]_vars

\* p and q are neighbours under the product adjacency: on every axis they are
\* identical or neighbours, and on at least one axis they are neighbours
AxisNeighbours(k, a, b) ==
    IF cdist.Y.adjacent[k]
    THEN Abs(a - b) = 1
    ELSE <<a, b>> \in cdist.Y.conn \/ <<b, a>> \in cdist.Y.conn
ProductNeighbours(p, q) ==
    /\ \A k \in 1..Len(p) : p[k] = q[k] \/ AxisNeighbours(k, p[k], q[k])
    /\ \E k \in 1..Len(p) : AxisNeighbours(k, p[k], q[k])

\* the points of S joined to p by a path of product neighbours inside S
ProductComponent(S, p) ==
    LET RECURSIVE Grow(_)
        Grow(R) ==
            LET R2 == R \cup {q \in S : \E r \in R : ProductNeighbours(r, q)}
            IN  IF R2 = R THEN R ELSE Grow(R2)
    IN  Grow({p})

\* C25: two supra-threshold points of the same sign have the same label
\* exactly when a path of product neighbours of that sign joins them, so two
\* points one step apart on two axes at once are in the same cluster.
C25_ProductAdjacency ==
    calls # <<>> =>
        \A S \in {SupraAbove, SupraBelow} :
            \A p, q \in S :
                (cdist._cluster_im[p] = cdist._cluster_im[q])
                    <=> (q \in ProductComponent(S, p))

\* C26: after a map was labeled the set of cluster ids is 1..k for the k
\* clusters found, it is the set of the nonzero values of the label image,
\* and the points beyond no threshold have the value 0.
C26_IdsContiguous ==
    (calls # <<>> /\ calls[1].exc = "none") =>
        /\ cdist._cids = 1..Cardinality(cdist._cids)
        /\ cdist._cids = {cdist._cluster_im[p] : p \in DOMAIN cdist._cluster_im} \ {0}
        /\ \A p \in DOMAIN cdist._cluster_im :
              (cdist._cluster_im[p] = 0) <=> ~Exceeds(LabeledMap[p])

\* ------------------------------------------------------------ time windows
\* a run over sensor x time data (a grid, and a sensor graph with the time
\* axis last and first) with one threshold and one permutation, whose
\* original clusters extend over sensors and time samples
BoxLayouts ==
    {Layout(<<LabSensors, RunTimes>>, <<TRUE, TRUE>>, {}, 1)}
    \cup {Layout(<<LabSensors, RunTimes>>, <<FALSE, TRUE>>,
                 Stride(LabSensors, d), 1) : d \in 1..(LabSensors - 1)}
    \cup {Layout(<<RunTimes, LabSensors>>, <<TRUE, FALSE>>,
                 Stride(LabSensors, d), 0) : d \in 1..(LabSensors - 1)}

InitBox ==
    /\ \E Y \in BoxLayouts, t \in {<<Some(Thr), None>>, <<None, Some(-Thr)>>} :
        \E w \in Windows(RunTimes) :
            cdist = ClusterDist_init(Y, 1, t[1], t[2], w[1], w[2])
    /\ calls = <<>>
    /\ Direct

BoxOriginal ==
    /\ calls = <<>>
    /\ \E pmap \in Maps(cdist.Y.shape, RunSupra, OwnSigns(cdist)) :
        Call("add_original", add_original(cdist, pmap))

BoxPerm ==
    /\ calls # <<>>
    /\ cdist.n_clusters # 0
    /\ PermCalls < NPerm
    /\ \E pmap \in FirstPointMaps(cdist) :
        Call("add_perm", add_perm(cdist, pmap))

NextBox == BoxOriginal \/ BoxPerm

SpecBox == InitBox /\ [][NextBox]_vars

\* the times of the first sample of the analysis window and of the first
\* sample after it
WindowStart == (IF IsNone(cdist.tstart) THEN 0 ELSE Val(cdist.tstart)) * tstep
WindowStop ==
    (IF IsNone(cdist.tstop) THEN cdist.Y.shape[cdist.Y.time_ax + 1]
     ELSE Val(cdist.tstop)) * tstep

\* C28: in the finalized table the tstart of a row is the time of the first
\* sample of its cluster and tstop the time of the first sample after its
\* last one, also when the cluster reaches the end of the window; so
\* tstart < tstop, every sample of the cluster is at or after tstart and
\* before tstop, and both times lie within the analysis window.
C28_TimeWindow ==
    (HasTable /\ cdist._i = 0) =>
        \A i \in 1..Len(cdist.clusters.rows) :
            LET row == cdist.clusters.rows[i] IN
            \E cid \in cdist._cids :
                /\ Support(row.cluster) = ClusterPoints(cid)
                /\ row.tstart = SetMin(ClusterTimes(cid)) * tstep
                /\ row.tstop = SetMax(ClusterTimes(cid)) * tstep + tstep
                /\ row.tstart < row.tstop
                /\ \A t \in ClusterTimes(cid) :
                      row.tstart <= t * tstep /\ t * tstep < row.tstop
                /\ WindowStart <= row.tstart
                /\ row.tstop <= WindowStop

\* a window that drops the first sample, and a cluster of two time samples
\* that ends with the last sample of the window
C28_Witness ==
    /\ HasTable /\ cdist._i = 0
    /\ cdist.crop /\ WindowStart > 0
    /\ \E i \in 1..Len(cdist.clusters.rows) :
          /\ cdist.clusters.rows[i].tstop = WindowStop
          /\ cdist.clusters.rows[i].tstart < WindowStop - tstep

\* ------------------------------------------------------------ Caffeinator
\* _utils/system.py: the object that keeps the computer awake while one or
\* more `with caffeine:` blocks are open. processes is the sequence of the
\* caffeinate subprocesses started so far, TRUE while one is running; the pid
\* of a subprocess is its index.
\* Caffeinator.__init__: enabled on OS X from version 10.8
Caffeinator_init(is_osx, recent) ==
    [n_processes |-> 0,
     enabled |-> is_osx /\ recent,
     _popen |-> None,
     _nope |-> "none"]

\* Caffeinator.__enter__: the object and the subprocesses after the call
Caffeinator_enter(self, procs) ==
    Bind(self.n_processes = 0 /\ self.enabled, LAMBDA start :
        [self |-> IF start
                  THEN [self EXCEPT !._popen = Some(Len(procs) + 1),
                                    !._nope = "entered",
                                    !.n_processes = @ + 1]
                  ELSE [self EXCEPT !.n_processes = @ + 1],
         processes |-> IF start THEN Append(procs, TRUE) ELSE procs])

\* __exit__ that tests the count before it is decremented
Caffeinator_exit_late(self, procs, exc_type) ==
    Bind([self EXCEPT !.n_processes = @ - 1], LAMBDA dec :
    Bind(self.n_processes = 0 /\ dec.enabled, LAMBDA stop :
        [self |-> IF stop THEN [dec EXCEPT !._nope = "exited"] ELSE dec,
         processes |-> IF stop /\ ~IsNone(dec._popen)
                       THEN [procs EXCEPT ![Val(dec._popen)] = FALSE]
                       ELSE procs]))

\* Caffeinator.__exit__; terminate() on a subprocess that has ended changes
\* nothing
Caffeinator_exit(self, procs, exc_type) ==
    Bind([self EXCEPT !.n_processes = @ - 1], LAMBDA dec :
    Bind(dec.n_processes = 0 /\ dec.enabled, LAMBDA stop :
        [self |-> IF stop THEN [dec EXCEPT !._nope = "exited"] ELSE dec,
         processes |-> IF stop /\ ~IsNone(dec._popen)
                       THEN [procs EXCEPT ![Val(dec._popen)] = FALSE]
                       ELSE procs]))

\* the number of `with caffeine:` blocks that are open: the calls of
\* __enter__ less the calls of __exit__
Open ==
    Cardinality({k \in 1..Len(calls) : calls[k].op = "__enter__"})
    - Cardinality({k \in 1..Len(calls) : calls[k].op = "__exit__"})

\* caffeine = Caffeinator() when the module is imported
InitCaffeine ==
    /\ \E is_osx \in BOOLEAN, recent \in BOOLEAN :
        caffeine = Caffeinator_init(is_osx, recent)
    /\ processes = <<>>
    /\ calls = <<>>
    /\ cdist = None
    /\ driver = None

\* a `with caffeine:` block is entered
Enter ==
    /\ Len(calls) < MaxLog
    /\ Open < MaxOpen
    /\ caffeine' = Caffeinator_enter(caffeine, processes).self
    /\ processes' = Caffeinator_enter(caffeine, processes).processes
    /\ calls' = Append(calls, [op |-> "__enter__", exc |-> "none"])
    /\ UNCHANGED <<cdist, driver>>

\* the innermost open block is left, normally or by an exception of its body
Exit ==
    /\ Len(calls) < MaxLog
    /\ Open > 0
    /\ \E exc_type \in {"none", "Exception"} :
        /\ caffeine' = Caffeinator_exit(caffeine, processes, exc_type).self
        /\ processes' = Caffeinator_exit(caffeine, processes, exc_type).processes
        /\ calls' = Append(calls, [op |-> "__exit__", exc |-> exc_type])
    /\ UNCHANGED <<cdist, driver>>

NextCaffeine == Enter \/ Exit

SpecCaffeine == InitCaffeine /\ [][NextCaffeine]_vars

\* the subprocesses that are running
Running == {pid \in 1..Len(processes) : processes[pid]}

\* C30: with nested enter and exit calls n_processes is the number of open
\* blocks and never negative; at most one subprocess runs, one runs exactly
\* while the Caffeinator is enabled and a block is open, and none runs once
\* every block is left. When enabled, a subprocess is started by exactly the
\* calls that open the first block and ended by exactly the calls that
\* leave the last one.
C30_Caffeinator ==
    /\ [](/\ caffeine.n_processes = Open
          /\ caffeine.n_processes >= 0
          /\ Cardinality(Running) <= 1
          /\ (Running # {}) <=> (caffeine.enabled /\ Open > 0)
          /\ Running # {} => Running = {Val(caffeine._popen)})
    /\ [][caffeine.enabled =>
            /\ (Len(processes') = Len(processes) + 1) <=> (Open = 0 /\ Open' = 1)
            /\ Len(processes') \in {Len(processes), Len(processes) + 1}
            /\ (Running' \cap (1..Len(processes)) # Running)
                  <=> (Open = 1 /\ Open' = 0)]_vars

\* a second subprocess runs in a block nested in a block, after the first
\* subprocess was ended with the block that started it
C30_Witness ==
    /\ caffeine # None /\ caffeine.enabled
    /\ Open = 2
    /\ processes = <<FALSE, TRUE>>

\* ------------------------------------------------------------ map shapes
\* a run as a driver makes it, without a window, in which a map may have a
\* shape other than the non-case shape of Y; calls holds the shape of the map
\* of every call. A run is followed up to its first such map, and up to its
\* first exception.
\* the shapes next to a shape: one axis longer or shorter by one, or the last
\* of several axes missing
WrongShapes(shape) ==
    {s \in {[shape EXCEPT ![k] = @ + d] : k \in 1..Len(shape), d \in {-1, 1}} :
        \A k \in 1..Len(s) : s[k] >= 1}
    \cup (IF Len(shape) > 1 THEN {SubSeq(shape, 1, Len(shape) - 1)} ELSE {})

\* the maps of a shape that are 0, or have one value at the first point
OriginMaps(shape, vals) ==
    {[p \in Points(shape) |-> IF \A k \in 1..Len(p) : p[k] = 0 THEN v ELSE 0] :
        v \in vals \cup {0}}

ShapeLayouts == {Layout(<<RunTimes>>, <<TRUE>>, {}, 0)} \cup LabLayouts

InitShape ==
    /\ \E Y \in ShapeLayouts, N \in 1..MaxN, t \in ThresholdPairs :
        cdist = ClusterDist_init(Y, N, t[1], t[2], None, None)
    /\ calls = <<>>
    /\ Direct

\* cdist.add_original(pmap)
ShapeOriginal ==
    /\ calls = <<>>
    /\ \E shape \in {cdist.Y.shape} \cup WrongShapes(cdist.Y.shape) :
        \E pmap \in PointMaps(shape, OwnSigns(cdist)) :
            /\ cdist' = add_original(cdist, pmap).self
            /\ calls' = <<[op |-> "add_original",
                           exc |-> add_original(cdist, pmap).exc,
                           shape |-> shape]>>
    /\ DirectStep

\* if cdist.n_clusters: for ... in resample(...): cdist.add_perm(pmap)
ShapePerm ==
    /\ calls # <<>>
    /\ \A k \in 1..Len(calls) :
          calls[k].exc = "none" /\ calls[k].shape = cdist.Y_perm
    /\ cdist.n_clusters # 0
    /\ PermCalls < NPerm
    /\ \E shape \in {cdist.Y_perm} \cup WrongShapes(cdist.Y_perm) :
        \E pmap \in OriginMaps(shape, OwnSigns(cdist)) :
            /\ cdist' = add_perm(cdist, pmap).self
            /\ calls' = Append(calls, [op |-> "add_perm",
                                       exc |-> add_perm(cdist, pmap).exc,
                                       shape |-> shape])
    /\ DirectStep

NextShape == ShapeOriginal \/ ShapePerm

SpecShape == InitShape /\ [][NextShape]_vars

\* C23: a call of add_original or add_perm with a map whose shape is not the
\* non-case shape of the data raises an exception and leaves the accumulator
\* as it was: the counter, the label image and the null distribution are
\* unchanged.
C23_MismatchFailsAtEntry ==
    [][(/\ Len(calls') = Len(calls) + 1
        /\ calls'[Len(calls')].shape # cdist.Y_perm)
       => (calls'[Len(calls')].exc # "none" /\ cdist' = cdist)]_vars

\* C24: after an add_original that found clusters, while fewer than N
\* add_perm calls were made, and after an add_perm call that failed, the
\* accumulator has no cluster table, no cluster p-values and no
\* cluster-probability map.
C24_NothingBeforeFinal ==
    (/\ OriginalFirst
     /\ calls[1].exc = "none"
     /\ cdist.n_clusters > 0
     /\ PermCalls < NPerm \/ calls[Len(calls)].exc # "none")
    => /\ Results = {}
       /\ cdist.clusters.rows = <<>>

\* the last of N add_perm calls failed
C24_Witness ==
    /\ OriginalFirst
    /\ cdist.n_clusters > 0
    /\ PermCalls = NPerm
    /\ NPerm > 1
    /\ calls[Len(calls)].op = "add_perm"
    /\ calls[Len(calls)].exc = "ValueError"
    /\ cdist._i = 0
    /\ Results = {}

\* ------------------------------------------------------------ drivers
\* The test classes whose __init__ drives an accumulator: cluster_corr, ttest
\* (with related samples, with independent samples, and of one sample
\* against a constant) and cluster_anova with a design of one effect. The
\* data have a time axis alone; the statistic maps are inputs. driver is the
\* test object under construction: pc is the statement __init__ is at, k the
\* number of resamples consumed, attrs the attributes set on self, exc the
\* exception that left __init__.
Drivers == {"cluster_corr", "ttest_rel", "ttest_ind", "ttest_1samp", "cluster_anova"}
TTests == {"ttest_rel", "ttest_ind", "ttest_1samp"}

DriverY == Layout(<<RunTimes>>, <<TRUE>>, {}, 0)

\* the permutation counts a driver may be given: ttest has samples=None by
\* default
SamplesOf(cls) ==
    {Some(n) : n \in 1..MaxN} \cup (IF cls \in TTests THEN {None} ELSE {})

\* `if samples:` in ttest
HasSamples(d) == ~IsNone(d.samples)

\* the driver has a statement cdist = _ClusterDist(...) on its path
Constructs(d) ==
    \/ d.cls \in {"cluster_corr", "cluster_anova"}
    \/ d.cls \in {"ttest_rel", "ttest_ind"} /\ HasSamples(d)

\* the thresholds the driver passes: tr and -tr, tmin and -tmin, tF[e] alone
DriverThresholds(cls) ==
    IF cls = "cluster_anova" THEN <<Some(Thr), None>>
    ELSE <<Some(Thr), Some(-Thr)>>

\* the non-case shape of a resampled copy of data of a non-case shape: the
\* resampler reorders the cases
resample(shape) == shape

\* the data a driver resamples for its permutations
Resampled(d, self) ==
    IF d.cls \in TTests THEN resample(self.Y_perm) ELSE resample(self.Y.shape)

InitDriver ==
    /\ \E cls \in Drivers :
        \E samples \in SamplesOf(cls),
           w \in {<<None, None>>} \cup InnerWindows(RunTimes) :
            driver = [cls |-> cls, samples |-> samples,
                      tstart |-> w[1], tstop |-> w[2],
                      pc |-> "start", k |-> 0, attrs |-> {}, exc |-> "none"]
    /\ cdist = None
    /\ calls = <<>>
    /\ caffeine = None
    /\ processes = <<>>

\* up to cdist = _ClusterDist(...), where the driver has one
DriverConstruct ==
    /\ driver.pc = "start"
    /\ IF Constructs(driver)
       THEN LET t == DriverThresholds(driver.cls)
                r == ClusterDist_new(DriverY, Val(driver.samples), t[1], t[2],
                                     driver.tstart, driver.tstop, 0)
            IN  /\ cdist' = r.self
                /\ driver' = [driver EXCEPT
                                 !.pc = IF r.exc = "none" THEN "add_original"
                                        ELSE "raised",
                                 !.exc = r.exc]
       ELSE /\ cdist' = cdist
            /\ driver' = [driver EXCEPT !.pc = "store"]
    /\ UNCHANGED <<calls, caffeine, processes>>

\* cdist.add_original(...) with the map of the observed data, and the
\* statement after it: `if cdist.n_clusters:`, or in cluster_anova
\* `self.F_maps[e] = dist.P`, an attribute _ClusterDist does not have
DriverOriginal ==
    /\ driver.pc = "add_original"
    /\ \E pmap \in PointMaps(cdist.Y.shape, OwnSigns(cdist)) :
        LET r == add_original(cdist, pmap) IN
        /\ cdist' = r.self
        /\ calls' = Append(calls, [op |-> "add_original", exc |-> r.exc,
                                   shape |-> ShapeOf(pmap)])
        /\ driver' =
              IF r.exc # "none"
              THEN [driver EXCEPT !.pc = "raised", !.exc = r.exc]
              ELSE IF driver.cls = "cluster_anova"
              THEN [driver EXCEPT !.pc = "raised", !.exc = "AttributeError"]
              ELSE IF r.self.n_clusters # 0
              THEN [driver EXCEPT !.pc = "resample"]
              ELSE [driver EXCEPT !.pc = "store"]
    /\ UNCHANGED <<caffeine, processes>>

\* one pass of `for ... in resample(..., samples): cdist.add_perm(...)`
DriverPerm ==
    /\ driver.pc = "resample"
    /\ driver.k < Val(driver.samples)
    /\ \E pmap \in OriginMaps(Resampled(driver, cdist), OwnSigns(cdist)) :
        LET r == add_perm(cdist, pmap) IN
        /\ cdist' = r.self
        /\ calls' = Append(calls, [op |-> "add_perm", exc |-> r.exc,
                                   shape |-> ShapeOf(pmap)])
        /\ driver' =
              IF r.exc # "none"
              THEN [driver EXCEPT !.pc = "raised", !.exc = r.exc,
                                  !.k = @ + 1]
              ELSE IF driver.k + 1 = Val(driver.samples)
              THEN [driver EXCEPT !.pc = "store", !.k = @ + 1]
              ELSE [driver EXCEPT !.k = @ + 1]
    /\ UNCHANGED <<caffeine, processes>>

\* the statements that store the results on self: cluster_corr reads
\* cdist.pmap, cdist.cpmap and cdist.clusters; ttest, `if samples:`, reads
\* cdist.cpmap and cdist.clusters, and in the one-sample test cdist is a
\* local variable that was never assigned
DriverStore ==
    /\ driver.pc = "store"
    /\ driver' =
          IF driver.cls = "cluster_corr"
          THEN IF {"pmap", "cpmap"} \subseteq cdist.attrs
               THEN [driver EXCEPT !.pc = "done",
                        !.attrs = {"cdist", "r_map", "all", "clusters"}]
               ELSE [driver EXCEPT !.pc = "raised", !.exc = "AttributeError",
                        !.attrs = {"cdist"}]
          ELSE IF ~HasSamples(driver)
          THEN [driver EXCEPT !.pc = "done", !.attrs = {"all"}]
          ELSE IF driver.cls = "ttest_1samp"
          THEN [driver EXCEPT !.pc = "raised", !.exc = "UnboundLocalError"]
          ELSE IF "cpmap" \in cdist.attrs
          THEN [driver EXCEPT !.pc = "done",
                   !.attrs = {"diff_cl", "all", "cdist", "clusters"}]
          ELSE [driver EXCEPT !.pc = "raised", !.exc = "AttributeError"]
    /\ UNCHANGED <<cdist, calls, caffeine, processes>>

NextDriver == DriverConstruct \/ DriverOriginal \/ DriverPerm \/ DriverStore

SpecDriver == InitDriver /\ [][NextDriver]_vars

\* __init__ of the driver has returned or raised
Returned == driver.pc \in {"done", "raised"}

\* the number of add_original calls made so far
OriginalCalls == Cardinality({k \in 1..Len(calls) : calls[k].op = "add_original"})

\* C21: every t-test that is given a permutation count has, when its
\* __init__ ends, constructed an accumulator, called add_original exactly
\* once, and returned with the finalized cluster result on the test object.
C21_TTestFinalized ==
    (driver.cls \in TTests /\ HasSamples(driver) /\ Returned) =>
        /\ driver.pc = "done"
        /\ cdist # None
        /\ OriginalCalls = 1
        /\ "clusters" \in cdist.attrs
        /\ "clusters" \in driver.attrs

\* C22: add_perm is called only after an add_original that found a cluster,
\* and when the driver ends after an add_original it has called add_perm N
\* times if a cluster was found and not at all if none was.
C22_PermsIffClusters ==
    /\ PermCalls > 0 => (OriginalFirst /\ cdist.n_clusters > 0)
    /\ (Returned /\ OriginalCalls = 1 /\ calls[1].exc = "none") =>
          PermCalls = IF cdist.n_clusters > 0 THEN NPerm ELSE 0

\* C27: every map passed to add_perm has the shape of the cropped data, the
\* shape of the map that add_original labeled.
C27_PermsCropped ==
    \A k \in 1..Len(calls) :
        calls[k].op = "add_perm" => calls[k].shape = cdist.Y_perm

====
